---------------------------- MODULE Spec2Model ----------------------------
(***************************************************************************)
(* State-machine model of the two game engines of best_game_strategy:     *)
(*   - hoppel_poppel.py : _Player (reserve / yellow area / game board)    *)
(*     and the round-robin driver GameStrategyHoppelPoppel._run;          *)
(*   - game_2048.py     : _Game2048 (board, points, direction cursor).    *)
(* The three token lists of a _Player are only ever read through count(), *)
(* "in", len(), index()+pop() of a given colour and pop() of a random      *)
(* index, so a list is modelled by its multiset: a function from the four  *)
(* animal colours to the number of copies it holds.  A draw of             *)
(* random.randrange(len(list)) is modelled by the colour of the token at   *)
(* the drawn index.  The numpy board is a function on 0..size-1 x          *)
(* 0..size-1.  Every random draw of the source is an explicit argument of  *)
(* the operator modelling it and is chosen with \E in the actions.         *)
(***************************************************************************)
EXTENDS Integers, Sequences, FiniteSets, TLC

VARIABLES
    players,            \* _run: list of _Player objects (their fields)
    cur,                \* _run: index p of the player whose play() is next
    winner,             \* _run: returned index, 0 while the loop runs
    last,               \* last play(): die colour, pools after step 1, result
    size,               \* _Game2048._size
    board,              \* _Game2048._board
    points,             \* _Game2048._points
    cur_dir_idx,        \* _Game2048._cur_dir_idx
    strategy,           \* _Game2048._strategy[0]
    pc,                 \* position inside _Game2048.run
    plot,               \* snapshots handed to cb_plot during the last turn
    turns,              \* _run: number of play() calls made so far
    twin,               \* a second _Game2048 given the same random outcomes
    args,               \* main: the parsed command line (game, n_rep)
    n_rep,              \* run_stats: n_rep_base
    hpc,                \* position inside main / run_stats / _run_stats
    combo_i,            \* run_stats: index i of the enumerate loop
    rep_i,              \* _run_stats: index i of the range(n_rep) loop
    wins,               \* hoppel_poppel _run_stats / run_stats: the wins dict
    sum_points,         \* game_2048 _run_stats: the local variable points
    all_wins,           \* hoppel_poppel run_stats: all_wins
    all_points,         \* game_2048 run_stats: all_points
    max_index           \* run_stats: max_index

raceVars == <<players, cur, winner, last>>
tileVars == <<size, board, points, cur_dir_idx, strategy, pc, plot>>
harnessVars == <<args, n_rep, hpc, combo_i, rep_i, wins, sum_points,
                 all_wins, all_points, max_index>>
extVars == <<turns, twin, args, n_rep, hpc, combo_i, rep_i, wins, sum_points,
             all_wins, all_points, max_index>>
vars == <<players, cur, winner, last,
          size, board, points, cur_dir_idx, strategy, pc, plot,
          turns, twin, args, n_rep, hpc, combo_i, rep_i, wins, sum_points,
          all_wins, all_points, max_index>>

\* no statistics run is going on
NoHarness ==
    /\ args = <<>> /\ n_rep = 0 /\ hpc = "none" /\ combo_i = 0 /\ rep_i = 0
    /\ wins = <<>> /\ sum_points = 0 /\ all_wins = <<>> /\ all_points = <<>>
    /\ max_index = 0

\* a single engine runs on its own
NoExt == turns = 0 /\ twin = <<>> /\ NoHarness

(***************************************************************************)
(*                        hoppel_poppel.py                                 *)
(***************************************************************************)

\* _Color.animals(): the four animals in enumeration order
Animals == <<"RED", "BLUE", "YELLOW", "GREEN">>
AnimalSet == {"RED", "BLUE", "YELLOW", "GREEN"}
\* _Color: the animals, WHITE (place two) and BLACK (take one)
Colors == AnimalSet \cup {"WHITE", "BLACK"}

StrategyDuplicates == {"RANDOM", "AVOID_DUPLICATES", "FORCE_DUPLICATES"}
StrategyTest == {"T1", "T2"}

EmptyList == [c \in AnimalSet |-> 0]

\* len(list)
Length(l) == l["RED"] + l["BLUE"] + l["YELLOW"] + l["GREEN"]

\* list.count(c)
Count(l, c) == l[c]

\* c in list
In(l, c) == l[c] > 0

\* list.pop(i) where list[i] is c
Remove(l, c) == [l EXCEPT ![c] = @ - 1]

\* list.append(c)
Add(l, c) == [l EXCEPT ![c] = @ + 1]

\* list.extend(other)
Extend(l, other) == [c \in AnimalSet |-> l[c] + other[c]]

\* the colours random.randrange(len(list)) can point at; {"NONE"} stands for
\* "no draw is made" on an empty list
Draws(l) == IF Length(l) = 0 THEN {"NONE"} ELSE {c \in AnimalSet : l[c] > 0}

\* _Player.__init__: _Color.animals() * 2 outside the board
NewPlayer(strat) ==
    [animals |-> [c \in AnimalSet |-> 2],
     game_board |-> EmptyList,
     game_board_yellow_area |-> EmptyList,
     strategy_duplicates |-> strat[1],
     strategy_test |-> strat[2]]

\* mutant of StageOne: the staged token is not taken out of the reserve
StageOneKeep(p, c) ==
    [p EXCEPT !.game_board_yellow_area = Add(@, c)]

\* game_board_yellow_area.append(animals.pop(i)), animals[i] being c
StageOne(p, c) ==
    [p EXCEPT !.game_board_yellow_area = Add(@, c),
              !.animals = Remove(@, c)]

\* "for c in _Color.animals(): if test(c)": the first colour of the set S of
\* colours passing the test, or "NONE"
FirstAnimal(S) ==
    IF \E k \in 1..4 : Animals[k] \in S
    THEN Animals[CHOOSE k \in 1..4 :
                    Animals[k] \in S /\ \A j \in 1..(k - 1) : Animals[j] \notin S]
    ELSE "NONE"

Min(a, b) == IF a < b THEN a ELSE b

\* mutant of StageRandom: stages whenever the reserve is not empty
StageRandomNoRoom(p, rnd) ==
    IF Length(p.animals) > 0 THEN StageOne(p, rnd) ELSE p

\* _move_animal_to_game_board_yellow_area, branch RANDOM: the loop body
\* returns in its first iteration
StageRandom(p, rnd) ==
    IF Min(Length(p.animals), 2 - Length(p.game_board_yellow_area)) > 0
    THEN StageOne(p, rnd)
    ELSE p

\* mutant of StageAny: the last token of the reserve is never staged
StageAnyNotLast(p, rnd) ==
    IF 2 - Length(p.game_board_yellow_area) > 0 /\ Length(p.animals) > 1
    THEN StageOne(p, rnd)
    ELSE p

\* the trailing "fill with random animals" loop of the AVOID / FORCE branches
StageAny(p, rnd) ==
    IF 2 - Length(p.game_board_yellow_area) > 0 /\ Length(p.animals) > 0
    THEN StageOne(p, rnd)
    ELSE p

\* mutant of StageAvoid: the second test does not look at the yellow area
StageAvoidNoCheck(p, rnd) ==
    LET room == 2 - Length(p.game_board_yellow_area) > 0
        c2 == FirstAnimal({c \in AnimalSet :
                  Count(p.animals, c) = 2 /\ ~In(p.game_board_yellow_area, c)})
        c1 == FirstAnimal({c \in AnimalSet : Count(p.animals, c) = 1})
    IN  IF room /\ c2 # "NONE" THEN StageOne(p, c2)
        ELSE IF room /\ c1 # "NONE" THEN StageOne(p, c1)
        ELSE StageAny(p, rnd)

\* branch AVOID_DUPLICATES
StageAvoid(p, rnd) ==
    LET room == 2 - Length(p.game_board_yellow_area) > 0
        c2 == FirstAnimal({c \in AnimalSet :
                  Count(p.animals, c) = 2 /\ ~In(p.game_board_yellow_area, c)})
        c1 == FirstAnimal({c \in AnimalSet :
                  Count(p.animals, c) = 1 /\ ~In(p.game_board_yellow_area, c)})
    IN  IF room /\ c2 # "NONE" THEN StageOne(p, c2)
        ELSE IF room /\ c1 # "NONE" THEN StageOne(p, c1)
        ELSE StageAny(p, rnd)

\* mutant of StageForce: only one copy of the pair is staged
StageForceSingle(p, rnd) ==
    LET ny == Length(p.game_board_yellow_area)
        na == Length(p.animals)
        c2 == FirstAnimal({c \in AnimalSet : Count(p.animals, c) = 2})
        c1 == FirstAnimal({c \in AnimalSet :
                  Count(p.animals, c) = 1 /\ In(p.game_board_yellow_area, c)})
    IN  IF ny = 0 /\ na >= 2 /\ c2 # "NONE"
        THEN StageOne(p, c2)
        ELSE IF ~(ny = 0 /\ na >= 2) /\ ny = 1 /\ na >= 1 /\ c1 # "NONE"
        THEN StageOne(p, c1)
        ELSE StageAny(p, rnd)

\* branch FORCE_DUPLICATES
StageForce(p, rnd) ==
    LET ny == Length(p.game_board_yellow_area)
        na == Length(p.animals)
        c2 == FirstAnimal({c \in AnimalSet : Count(p.animals, c) = 2})
        c1 == FirstAnimal({c \in AnimalSet :
                  Count(p.animals, c) = 1 /\ In(p.game_board_yellow_area, c)})
    IN  IF ny = 0 /\ na >= 2 /\ c2 # "NONE"
        THEN StageOne(StageOne(p, c2), c2)
        ELSE IF ~(ny = 0 /\ na >= 2) /\ ny = 1 /\ na >= 1 /\ c1 # "NONE"
        THEN StageOne(p, c1)
        ELSE StageAny(p, rnd)

\* mutant of MoveAnimalToYellowArea: the second strategy axis is looked at,
\* T2 stages at random
MoveAnimalToYellowAreaT2(p, rnd) ==
    IF p.strategy_test = "T2" THEN StageRandom(p, rnd)
    ELSE CASE p.strategy_duplicates = "RANDOM" -> StageRandom(p, rnd)
           [] p.strategy_duplicates = "AVOID_DUPLICATES" -> StageAvoid(p, rnd)
           [] p.strategy_duplicates = "FORCE_DUPLICATES" -> StageForce(p, rnd)

\* _Player._move_animal_to_game_board_yellow_area
MoveAnimalToYellowArea(p, rnd) ==
    CASE p.strategy_duplicates = "RANDOM" -> StageRandom(p, rnd)
      [] p.strategy_duplicates = "AVOID_DUPLICATES" -> StageAvoid(p, rnd)
      [] p.strategy_duplicates = "FORCE_DUPLICATES" -> StageForce(p, rnd)

\* mutant of MoveAnimalToGameArea: the rolled animal is taken from the yellow
\* area without looking for it
MoveAnimalToGameAreaNoSearch(p, c) ==
    IF c = "WHITE"
    THEN [p EXCEPT !.game_board = Extend(@, p.game_board_yellow_area),
                   !.game_board_yellow_area = EmptyList]
    ELSE [p EXCEPT !.game_board = Add(@, c),
                   !.game_board_yellow_area = Remove(@, c)]

\* mutant of MoveAnimalToGameArea: WHITE places only a full yellow area
MoveAnimalToGameAreaWhiteTwo(p, c) ==
    IF c = "WHITE"
    THEN IF Length(p.game_board_yellow_area) = 2
         THEN [p EXCEPT !.game_board = Extend(@, p.game_board_yellow_area),
                        !.game_board_yellow_area = EmptyList]
         ELSE p
    ELSE IF In(p.game_board_yellow_area, c)
    THEN [p EXCEPT !.game_board = Add(@, c),
                   !.game_board_yellow_area = Remove(@, c)]
    ELSE p

\* mutant of MoveAnimalToGameArea: the loop over the yellow area does not
\* break after the first match
MoveAnimalToGameAreaNoBreak(p, c) ==
    IF c = "WHITE"
    THEN [p EXCEPT !.game_board = Extend(@, p.game_board_yellow_area),
                   !.game_board_yellow_area = EmptyList]
    ELSE [p EXCEPT !.game_board = [@ EXCEPT ![c] = @ + p.game_board_yellow_area[c]],
                   !.game_board_yellow_area = [@ EXCEPT ![c] = 0]]

\* mutant of MoveAnimalToGameArea: the yellow area is not cleared on WHITE
MoveAnimalToGameAreaNoClear(p, c) ==
    IF c = "WHITE"
    THEN [p EXCEPT !.game_board = Extend(@, p.game_board_yellow_area)]
    ELSE IF In(p.game_board_yellow_area, c)
    THEN [p EXCEPT !.game_board = Add(@, c),
                   !.game_board_yellow_area = Remove(@, c)]
    ELSE p

\* _Player._move_animal_to_game_board_game_area
MoveAnimalToGameArea(p, c) ==
    IF c = "WHITE"
    THEN [p EXCEPT !.game_board = Extend(@, p.game_board_yellow_area),
                   !.game_board_yellow_area = EmptyList]
    ELSE IF In(p.game_board_yellow_area, c)
    THEN [p EXCEPT !.game_board = Add(@, c),
                   !.game_board_yellow_area = Remove(@, c)]
    ELSE p

\* animals.append(game_board.pop(i)), game_board[i] being c
TakeOne(p, c) ==
    [p EXCEPT !.animals = Add(@, c),
              !.game_board = Remove(@, c)]

\* mutant of TakeAnimalFromGameArea: the guard is len(game_board) > 0
TakeAnimalAtLeastOne(p, rnd) ==
    LET c2 == FirstAnimal({c \in AnimalSet : Count(p.game_board, c) = 2})
        c1 == FirstAnimal({c \in AnimalSet : Count(p.game_board, c) = 1})
    IN  IF Length(p.game_board) > 0
        THEN CASE p.strategy_duplicates = "RANDOM" -> TakeOne(p, rnd)
               [] p.strategy_duplicates = "AVOID_DUPLICATES" ->
                    IF c2 # "NONE" THEN TakeOne(p, c2) ELSE TakeOne(p, rnd)
               [] p.strategy_duplicates = "FORCE_DUPLICATES" ->
                    IF c1 # "NONE" THEN TakeOne(p, c1) ELSE TakeOne(p, rnd)
        ELSE p

\* mutant of TakeAnimalFromGameArea: the counts tested by the two strategies
\* are exchanged
TakeAnimalSwapped(p, rnd) ==
    LET c2 == FirstAnimal({c \in AnimalSet : Count(p.game_board, c) = 2})
        c1 == FirstAnimal({c \in AnimalSet : Count(p.game_board, c) = 1})
    IN  IF Length(p.game_board) > 1
        THEN CASE p.strategy_duplicates = "RANDOM" -> TakeOne(p, rnd)
               [] p.strategy_duplicates = "AVOID_DUPLICATES" ->
                    IF c1 # "NONE" THEN TakeOne(p, c1) ELSE TakeOne(p, rnd)
               [] p.strategy_duplicates = "FORCE_DUPLICATES" ->
                    IF c2 # "NONE" THEN TakeOne(p, c2) ELSE TakeOne(p, rnd)
        ELSE p

\* _Player._take_animal_from_game_board_game_area
TakeAnimalFromGameArea(p, rnd) ==
    LET c2 == FirstAnimal({c \in AnimalSet : Count(p.game_board, c) = 2})
        c1 == FirstAnimal({c \in AnimalSet : Count(p.game_board, c) = 1})
    IN  IF Length(p.game_board) > 1
        THEN CASE p.strategy_duplicates = "RANDOM" -> TakeOne(p, rnd)
               [] p.strategy_duplicates = "AVOID_DUPLICATES" ->
                    IF c2 # "NONE" THEN TakeOne(p, c2) ELSE TakeOne(p, rnd)
               [] p.strategy_duplicates = "FORCE_DUPLICATES" ->
                    IF c1 # "NONE" THEN TakeOne(p, c1) ELSE TakeOne(p, rnd)
        ELSE p

\* mutant of Won: only the reserve is looked at
WonReserveOnly(p) == Length(p.animals) = 0

\* step 3 of play(): the returned value
Won(p) == Length(p.animals) = 0 /\ Length(p.game_board_yellow_area) = 0

\* step 2 of play(): the action for die colour c
DieAction(p, c, rnd) ==
    IF c # "BLACK" THEN MoveAnimalToGameArea(p, c)
    ELSE TakeAnimalFromGameArea(p, rnd)

NoLast == [player |-> 0, die |-> "NONE", before |-> <<>>, staged |-> <<>>, won |-> FALSE]

\* mutant of Play: the for loop does not move on to the next player
PlaySamePlayer ==
    /\ winner = 0
    /\ \E p \in {players[cur]} :
       \E rnd1 \in Draws(p.animals), c \in Colors :
       \E s \in {MoveAnimalToYellowArea(p, rnd1)} :
       \E rnd2 \in Draws(s.game_board) :
       \E q \in {DieAction(s, c, rnd2)} :
           /\ players' = [players EXCEPT ![cur] = q]
           /\ last' = [player |-> cur, die |-> c, before |-> p, staged |-> s,
                       won |-> Won(q)]
           /\ winner' = IF Won(q) THEN cur ELSE 0
           /\ cur' = cur
    /\ UNCHANGED tileVars

\* one iteration of the for loop of _run: players[cur].play(), return on a win.
\* rnd1 is the staging draw, c the die, rnd2 the draw of the take step.
Play ==
    /\ winner = 0
    /\ \E p \in {players[cur]} :
       \E rnd1 \in Draws(p.animals), c \in Colors :
       \E s \in {MoveAnimalToYellowArea(p, rnd1)} :
       \E rnd2 \in Draws(s.game_board) :
       \E q \in {DieAction(s, c, rnd2)} :
           /\ players' = [players EXCEPT ![cur] = q]
           /\ last' = [player |-> cur, die |-> c, before |-> p, staged |-> s,
                       won |-> Won(q)]
           /\ winner' = IF Won(q) THEN cur ELSE 0
           /\ cur' = IF Won(q) THEN cur ELSE (cur % Len(players)) + 1
    /\ UNCHANGED tileVars

\* the tile game is not running
NoTile ==
    /\ size = 0 /\ board = <<>> /\ points = 0 /\ cur_dir_idx = 0
    /\ strategy = "NONE" /\ pc = "none" /\ plot = <<>>

\* one player with any strategy set, right after _Player.__init__
InitPlayer ==
    /\ \E sd \in StrategyDuplicates, st \in StrategyTest :
         players = <<NewPlayer(<<sd, st>>)>>
    /\ cur = 1 /\ winner = 0 /\ last = NoLast
    /\ NoTile
    /\ NoExt

NextPlayer == Play /\ UNCHANGED extVars

SpecPlayer == InitPlayer /\ [][NextPlayer]_vars

\* number of play() calls of one _run that are explored
MaxTurns == 8

\* _run(player_strategies) as run_stats calls it for two players: the first
\* player has (RANDOM, T1), the second any duplicates strategy; the players
\* are created anew by the call
InitRace ==
    /\ \E sd \in StrategyDuplicates :
         players = <<NewPlayer(<<"RANDOM", "T1">>), NewPlayer(<<sd, "T1">>)>>
    /\ cur = 1 /\ winner = 0 /\ last = NoLast
    /\ NoTile
    /\ NoExt

\* one iteration of the for loop of _run, counted
PlayRace ==
    /\ turns < MaxTurns
    /\ Play
    /\ turns' = turns + 1
    /\ UNCHANGED twin
    /\ UNCHANGED harnessVars

NextRace == PlayRace

SpecRace == InitRace /\ [][NextRace]_vars

(***************************************************************************)
(*                           game_2048.py                                  *)
(***************************************************************************)

\* list(_Dir), 0-based in the source
Dirs == <<"LEFT", "UP", "RIGHT", "DOWN">>
DirSet == {"LEFT", "UP", "RIGHT", "DOWN"}
\* the direction list of the LDRD branch of _phase_get_dir
DirsLDRD == <<"LEFT", "DOWN", "RIGHT", "DOWN", "UP">>

StrategyMove == {"RANDOM", "ROTATE_CW", "ROTATE_CCW", "LDRD"}

\* np.zeros((size, size), dtype=int)
Zeros(n) == [r \in 0..(n - 1) |-> [c \in 0..(n - 1) |-> 0]]

\* board[:, c]
Column(b, c, n) == [r \in 0..(n - 1) |-> b[r][c]]

\* the board whose rows are lines[0], ..., lines[n-1]
OfRows(lines, n) == [r \in 0..(n - 1) |-> lines[r]]

\* the board whose columns are lines[0], ..., lines[n-1]
OfColumns(lines, n) == [r \in 0..(n - 1) |-> [c \in 0..(n - 1) |-> lines[c][r]]]

\* len(np.where(line[lo:hi] == 0)[0])
FreeCellsCnt(l, lo, hi) == Cardinality({i \in lo..(hi - 1) : l[i] = 0})

\* mutant of MoveLowStep: a tile moves by one cell only
MoveLowStepByOne(st, c) ==
    LET l == st.line IN
    IF l[c] # 0 /\ l[c - 1] = 0
    THEN [line |-> [l EXCEPT ![c - 1] = l[c], ![c] = 0],
          action_performed |-> TRUE]
    ELSE st

\* body of the inner loop of _phase_move_to_dir for LEFT / UP at position c;
\* st = [line, action_performed]
MoveLowStep(st, c) ==
    LET l == st.line
        free_cells_cnt == FreeCellsCnt(l, 0, c)
    IN  IF l[c] # 0 /\ free_cells_cnt > 0
        THEN [line |-> [l EXCEPT ![c - free_cells_cnt] = l[c], ![c] = 0],
              action_performed |-> TRUE]
        ELSE st

\* body of the inner loop for RIGHT / DOWN at position c
MoveHighStep(st, c, n) ==
    LET l == st.line
        free_cells_cnt == FreeCellsCnt(l, c + 1, n)
    IN  IF l[c] # 0 /\ free_cells_cnt > 0
        THEN [line |-> [l EXCEPT ![c + free_cells_cnt] = l[c], ![c] = 0],
              action_performed |-> TRUE]
        ELSE st

\* for c in range(1, size)
RECURSIVE MoveLowLoop(_, _, _)
MoveLowLoop(st, c, n) ==
    IF c > n - 1 THEN st ELSE MoveLowLoop(MoveLowStep(st, c), c + 1, n)

\* for c in reversed(range(0, size - 1))
RECURSIVE MoveHighLoop(_, _, _)
MoveHighLoop(st, c, n) ==
    IF c < 0 THEN st ELSE MoveHighLoop(MoveHighStep(st, c, n), c - 1, n)

\* one row (LEFT, RIGHT) or column (UP, DOWN) of _phase_move_to_dir
MoveLine(l, move_dir, n) ==
    IF move_dir \in {"LEFT", "UP"}
    THEN MoveLowLoop([line |-> l, action_performed |-> FALSE], 1, n)
    ELSE MoveHighLoop([line |-> l, action_performed |-> FALSE], n - 2, n)

\* _Game2048._phase_move_to_dir: the new board and the returned flag
PhaseMoveToDir(b, move_dir, n) ==
    LET moved == [i \in 0..(n - 1) |->
                    IF move_dir \in {"LEFT", "RIGHT"}
                    THEN MoveLine(b[i], move_dir, n)
                    ELSE MoveLine(Column(b, i, n), move_dir, n)]
        lines == [i \in 0..(n - 1) |-> moved[i].line]
    IN  [board |-> IF move_dir \in {"LEFT", "RIGHT"}
                   THEN OfRows(lines, n) ELSE OfColumns(lines, n),
         action_performed |-> \E i \in 0..(n - 1) : moved[i].action_performed]

\* mutant of MergeStep: any two neighbouring tiles are added up
MergeStepAnyPair(st, c) ==
    LET l == st.line IN
    IF l[c] # 0 /\ l[c + 1] # 0
    THEN [line |-> [l EXCEPT ![c] = l[c] + l[c + 1], ![c + 1] = 0],
          points |-> st.points + l[c] + l[c + 1],
          action_performed |-> TRUE]
    ELSE st

\* mutant of MergeStep: the points are added before the tile is doubled
MergeStepOldValue(st, c) ==
    LET l == st.line IN
    IF l[c] # 0 /\ l[c] = l[c + 1]
    THEN [line |-> [l EXCEPT ![c] = 2 * l[c], ![c + 1] = 0],
          points |-> st.points + l[c],
          action_performed |-> TRUE]
    ELSE st

\* mutant of MergeStep: the doubled tile is written to the neighbour the scan
\* visits next
MergeStepForward(st, c) ==
    LET l == st.line IN
    IF l[c] # 0 /\ l[c] = l[c + 1]
    THEN [line |-> [l EXCEPT ![c + 1] = 2 * l[c], ![c] = 0],
          points |-> st.points + 2 * l[c],
          action_performed |-> TRUE]
    ELSE st

\* body of the inner loop of _phase_merge_neighbours at position c;
\* st = [line, points, action_performed]
MergeStep(st, c) ==
    LET l == st.line IN
    IF l[c] # 0 /\ l[c] = l[c + 1]
    THEN [line |-> [l EXCEPT ![c] = 2 * l[c], ![c + 1] = 0],
          points |-> st.points + 2 * l[c],
          action_performed |-> TRUE]
    ELSE st

\* for c in range(size - 1)
RECURSIVE MergeLoop(_, _, _)
MergeLoop(st, c, n) ==
    IF c > n - 2 THEN st ELSE MergeLoop(MergeStep(st, c), c + 1, n)

\* mutant of MergeLine: the scan starts at index 1
MergeLineSkipFirst(l, move_dir, n) ==
    MergeLoop([line |-> l, points |-> 0, action_performed |-> FALSE], 1, n)

\* one row or column of _phase_merge_neighbours: both branches of the source
\* scan the line from index 0 upwards
MergeLine(l, move_dir, n) ==
    MergeLoop([line |-> l, points |-> 0, action_performed |-> FALSE], 0, n)

\* f[0] + ... + f[k]
RECURSIVE SumTo(_, _)
SumTo(f, k) == IF k < 0 THEN 0 ELSE f[k] + SumTo(f, k - 1)

\* _Game2048._phase_merge_neighbours: the new board, the points added and the
\* returned flag
PhaseMergeNeighbours(b, move_dir, n) ==
    LET merged == [i \in 0..(n - 1) |->
                     IF move_dir \in {"LEFT", "RIGHT"}
                     THEN MergeLine(b[i], move_dir, n)
                     ELSE MergeLine(Column(b, i, n), move_dir, n)]
        lines == [i \in 0..(n - 1) |-> merged[i].line]
        gain == [i \in 0..(n - 1) |-> merged[i].points]
    IN  [board |-> IF move_dir \in {"LEFT", "RIGHT"}
                   THEN OfRows(lines, n) ELSE OfColumns(lines, n),
         points |-> SumTo(gain, n - 1),
         action_performed |-> \E i \in 0..(n - 1) : merged[i].action_performed]

\* np.where(board == 0): the empty cells
FreeCells(b, n) == {rc \in (0..(n - 1)) \X (0..(n - 1)) : b[rc[1]][rc[2]] = 0}

\* position of a cell in the row-major order of np.where
RowMajor(rc, n) == rc[1] * n + rc[2]

\* (w[0][idx], w[1][idx]): the idx-th empty cell in row-major order
FreeCellAt(b, idx, n) ==
    CHOOSE rc \in FreeCells(b, n) :
        Cardinality({o \in FreeCells(b, n) : RowMajor(o, n) < RowMajor(rc, n)}) = idx

\* the values of np.random.randint(cnt_free_cells); {0} when no draw is made
FreeDraws(b, n) ==
    IF FreeCells(b, n) = {} THEN {0} ELSE 0..(Cardinality(FreeCells(b, n)) - 1)

\* 2 if random.random() < .9 else 4
NewNumbers == {2, 4}

\* mutant of AddNewNumber: idx counts all cells of the board in row-major
\* order, not the empty ones
AddNewNumberAnyCell(b, idx, val, n) ==
    IF Cardinality(FreeCells(b, n)) > 0
    THEN [b EXCEPT ![idx \div n][idx % n] = val]
    ELSE b

\* _Game2048._add_new_number with its draws idx and val
AddNewNumber(b, idx, val, n) ==
    IF Cardinality(FreeCells(b, n)) > 0
    THEN LET rc == FreeCellAt(b, idx, n)
         IN  [b EXCEPT ![rc[1]][rc[2]] = val]
    ELSE b

\* mutant of PhaseGetDir: the LDRD cursor wraps at len(_Dir)
PhaseGetDirWrapFour(strat, idx, rnd) ==
    CASE strat = "RANDOM" -> [dir |-> rnd, cur_dir_idx |-> idx]
      [] strat = "ROTATE_CW" ->
            [dir |-> Dirs[idx + 1], cur_dir_idx |-> (idx + 1) % Len(Dirs)]
      [] strat = "ROTATE_CCW" ->
            [dir |-> Dirs[idx + 1], cur_dir_idx |-> (idx - 1 + Len(Dirs)) % Len(Dirs)]
      [] strat = "LDRD" ->
            [dir |-> DirsLDRD[idx + 1], cur_dir_idx |-> (idx + 1) % Len(Dirs)]

\* mutant of PhaseGetDir: the cursor of the rotating strategies is not stored
PhaseGetDirStuck(strat, idx, rnd) ==
    CASE strat = "RANDOM" -> [dir |-> rnd, cur_dir_idx |-> idx]
      [] strat = "ROTATE_CW" -> [dir |-> Dirs[idx + 1], cur_dir_idx |-> idx]
      [] strat = "ROTATE_CCW" -> [dir |-> Dirs[idx + 1], cur_dir_idx |-> idx]
      [] strat = "LDRD" ->
            [dir |-> DirsLDRD[idx + 1], cur_dir_idx |-> (idx + 1) % Len(DirsLDRD)]

\* _Game2048._phase_get_dir: the direction and the new cursor; rnd is the
\* value of random.choice(list(_Dir))
PhaseGetDir(strat, idx, rnd) ==
    CASE strat = "RANDOM" -> [dir |-> rnd, cur_dir_idx |-> idx]
      [] strat = "ROTATE_CW" ->
            [dir |-> Dirs[idx + 1], cur_dir_idx |-> (idx + 1) % Len(Dirs)]
      [] strat = "ROTATE_CCW" ->
            [dir |-> Dirs[idx + 1], cur_dir_idx |-> (idx - 1 + Len(Dirs)) % Len(Dirs)]
      [] strat = "LDRD" ->
            [dir |-> DirsLDRD[idx + 1], cur_dir_idx |-> (idx + 1) % Len(DirsLDRD)]

\* mutant of PhaseCheckGameOver: the columns are not looked at
PhaseCheckGameOverRows(b, n) ==
    LET action_performable ==
          IF Cardinality(FreeCells(b, n)) > 0 THEN TRUE
          ELSE \E r \in 0..(n - 1), c \in 0..(n - 2) : b[r][c] = b[r][c + 1]
    IN  ~action_performable

\* mutant of PhaseCheckGameOver: a board with an empty cell counts as over
\* when no two neighbours are equal
PhaseCheckGameOverNoFree(b, n) ==
    LET action_performable ==
          \/ \E r \in 0..(n - 1), c \in 0..(n - 2) :
               b[r][c] # 0 /\ b[r][c] = b[r][c + 1]
          \/ \E c \in 0..(n - 1), r \in 0..(n - 2) :
               b[r][c] # 0 /\ b[r][c] = b[r + 1][c]
    IN  ~action_performable

\* _Game2048._phase_check_game_over
PhaseCheckGameOver(b, n) ==
    LET action_performable ==
          IF Cardinality(FreeCells(b, n)) > 0 THEN TRUE
          ELSE \/ \E r \in 0..(n - 1), c \in 0..(n - 2) : b[r][c] = b[r][c + 1]
               \/ \E c \in 0..(n - 1), r \in 0..(n - 2) : b[r][c] = b[r + 1][c]
    IN  ~action_performable

\* steps 2 to 5 of the loop body of run(): the boards at the three plot
\* locations, the points gained and action_performed
Phases(b, move_dir, n) ==
    LET m1 == PhaseMoveToDir(b, move_dir, n)
        mg == PhaseMergeNeighbours(m1.board, move_dir, n)
        m2 == PhaseMoveToDir(mg.board, move_dir, n)
    IN  [dir |-> move_dir,
         start |-> b,
         move_to_dir_1_after |-> m1.board,
         merge_neighbours_after |-> mg.board,
         move_to_dir_2_after |-> m2.board,
         points |-> mg.points,
         action_performed |-> (mg.action_performed \/ m1.action_performed)]

\* mutant of AddIfPerformed: a number is added after every turn
AddAlways(ph, idx, val, n) ==
    AddNewNumber(ph.move_to_dir_2_after, idx, val, n)

\* run(), step 6: add a number only if an effective move was performed
AddIfPerformed(ph, idx, val, n) ==
    IF ph.action_performed
    THEN AddNewNumber(ph.move_to_dir_2_after, idx, val, n)
    ELSE ph.move_to_dir_2_after

\* the random draws that can influence a turn: only RANDOM draws a direction
DirDraws == IF strategy = "RANDOM" THEN DirSet ELSE {"LEFT"}

\* run(), step 1: _phase_init adds two numbers
PhaseInit ==
    /\ pc = "init"
    /\ \E idx1 \in FreeDraws(board, size), val1 \in NewNumbers :
         LET b1 == AddNewNumber(board, idx1, val1, size) IN
         \E idx2 \in FreeDraws(b1, size), val2 \in NewNumbers :
           board' = AddNewNumber(b1, idx2, val2, size)
    /\ pc' = "loop"
    /\ UNCHANGED <<size, points, cur_dir_idx, strategy, plot>>
    /\ UNCHANGED raceVars

\* run(), one iteration of the while loop (steps 2 to 7)
Turn ==
    /\ pc = "loop"
    /\ \E rnd \in DirDraws :
       \E g \in {PhaseGetDir(strategy, cur_dir_idx, rnd)} :
       \E ph \in {Phases(board, g.dir, size)} :
       \E idx \in FreeDraws(ph.move_to_dir_2_after, size), val \in NewNumbers :
       \E b \in {AddIfPerformed(ph, idx, val, size)} :
           /\ cur_dir_idx' = g.cur_dir_idx
           /\ board' = b
           /\ points' = points + ph.points
           /\ plot' = ph
           /\ pc' = IF ph.action_performed /\ PhaseCheckGameOver(b, size)
                    THEN "returned" ELSE "loop"
    /\ UNCHANGED <<size, strategy>>
    /\ UNCHANGED raceVars

\* no race is running
NoRace == players = <<>> /\ cur = 0 /\ winner = 0 /\ last = NoLast

NoPlot == [dir |-> "NONE", start |-> <<>>, move_to_dir_1_after |-> <<>>,
           merge_neighbours_after |-> <<>>, move_to_dir_2_after |-> <<>>,
           points |-> 0, action_performed |-> FALSE]

\* board size of the explored games (the size argument of _Game2048)
Size == 2

\* the state after _Game2048.__init__, for any strategy
Init2048 ==
    /\ size = Size
    /\ board = Zeros(size)
    /\ points = 0
    /\ cur_dir_idx = 0
    /\ strategy \in StrategyMove
    /\ pc = "init"
    /\ plot = NoPlot
    /\ NoRace
    /\ NoExt

Next2048 ==
    \/ PhaseInit /\ UNCHANGED extVars
    \/ Turn /\ UNCHANGED extVars

Spec2048 == Init2048 /\ [][Next2048]_vars

\* a game whose move strategy follows a direction sequence (every member of
\* _StrategyMove but RANDOM)
Init2048Sequence == Init2048 /\ strategy # "RANDOM"

\* the while loop of run() keeps running until it breaks
Spec2048Fair == Init2048Sequence /\ [][Next2048]_vars /\ WF_vars(Next2048)

(***************************************************************************)
(* The phase functions on their own: steps 3 to 5 of one loop iteration    *)
(* (move, merge, move) applied once, in each direction, to boards of the   *)
(* kind the loop head sees.                                                *)
(***************************************************************************)

\* size: int = 4, the board size every _run uses
DefaultSize == 4
\* most tiles on a drawn board of DefaultSize
MaxTiles == 3
\* tile values of the drawn boards
TileValues == {2, 4}

Cells(n) == (0..(n - 1)) \X (0..(n - 1))

\* the board holding f[rc] at the cells rc of DOMAIN f and 0 elsewhere
BoardOf(f, n) ==
    [r \in 0..(n - 1) |-> [c \in 0..(n - 1) |->
        IF <<r, c>> \in DOMAIN f THEN f[<<r, c>>] ELSE 0]]

TileCells(b, n) == Cells(n) \ FreeCells(b, n)

\* a board run() can hold at the head of its loop: two tiles right after
\* _phase_init, or tiles moved against one edge plus the tile just added
LoopHeadBoard(b, n) ==
    \/ Cardinality(TileCells(b, n)) = 2
    \/ \E rc \in TileCells(b, n), d \in DirSet :
         LET rest == [b EXCEPT ![rc[1]][rc[2]] = 0]
         IN  /\ rest # Zeros(n)
             /\ ~PhaseMoveToDir(rest, d, n).action_performed

\* boards of DefaultSize with at most MaxTiles tiles, all boards of Size
InitPhases ==
    /\ \/ /\ size = DefaultSize
          /\ \E S \in {T \in SUBSET Cells(DefaultSize) :
                          Cardinality(T) \in 2..MaxTiles} :
               \E f \in [S -> TileValues] : board = BoardOf(f, size)
       \/ /\ size = Size
          /\ \E S \in {T \in SUBSET Cells(Size) : Cardinality(T) >= 2} :
               \E f \in [S -> TileValues] : board = BoardOf(f, size)
    /\ LoopHeadBoard(board, size)
    /\ points = 0
    /\ cur_dir_idx = 0
    /\ strategy = "RANDOM"
    /\ pc = "loop"
    /\ plot = NoPlot
    /\ NoRace
    /\ NoExt

\* steps 2 to 5 of one loop iteration in direction move_dir: _phase_move_to_dir,
\* _phase_merge_neighbours, _phase_move_to_dir, with no number added
ApplyPhases ==
    /\ pc = "loop"
    /\ plot = NoPlot
    /\ \E move_dir \in DirSet :
       \E ph \in {Phases(board, move_dir, size)} :
           /\ board' = ph.move_to_dir_2_after
           /\ points' = points + ph.points
           /\ plot' = ph
    /\ UNCHANGED <<size, cur_dir_idx, strategy, pc>>
    /\ UNCHANGED raceVars

NextPhases == ApplyPhases /\ UNCHANGED extVars

SpecPhases == InitPhases /\ [][NextPhases]_vars

(***************************************************************************)
(* Two runs side by side that receive the same random outcomes: two        *)
(* _Player objects with the same duplicates strategy (in players), or two  *)
(* _Game2048 objects with the same strategy (the second one in twin).      *)
(***************************************************************************)

\* two players of the same duplicates strategy and any second-axis values,
\* each playing a game of its own
InitTwinPlayer ==
    /\ \E sd \in StrategyDuplicates, st1 \in StrategyTest, st2 \in StrategyTest :
         players = <<NewPlayer(<<sd, st1>>), NewPlayer(<<sd, st2>>)>>
    /\ cur = 1 /\ winner = 0 /\ last = NoLast
    /\ twin = [staged |-> <<>>, won |-> FALSE]
    /\ turns = 0
    /\ NoTile /\ NoHarness

\* play() of both players with the same outcomes of random.randrange and of
\* the die; twin records the second player's state after step 1 and its
\* returned value
PlayTwin ==
    /\ Len(players) = 2 /\ winner = 0 /\ ~twin.won
    /\ \E p1 \in {players[1]}, p2 \in {players[2]} :
       \E rnd1 \in Draws(p1.animals), c \in Colors :
       \E s1 \in {MoveAnimalToYellowArea(p1, rnd1)},
          s2 \in {MoveAnimalToYellowArea(p2, rnd1)} :
       \E rnd2 \in Draws(s1.game_board) :
       \E q1 \in {DieAction(s1, c, rnd2)}, q2 \in {DieAction(s2, c, rnd2)} :
           /\ players' = <<q1, q2>>
           /\ last' = [player |-> 1, die |-> c, before |-> p1, staged |-> s1,
                       won |-> Won(q1)]
           /\ twin' = [staged |-> s2, won |-> Won(q2)]
           /\ winner' = IF Won(q1) THEN 1 ELSE 0
    /\ UNCHANGED <<cur, turns>>
    /\ UNCHANGED tileVars
    /\ UNCHANGED harnessVars

\* two games of the same strategy, right after _Game2048.__init__
InitTwin2048 ==
    /\ size = Size
    /\ board = Zeros(size)
    /\ points = 0
    /\ cur_dir_idx = 0
    /\ strategy \in StrategyMove
    /\ pc = "init"
    /\ plot = NoPlot
    /\ twin = [board |-> Zeros(size), points |-> 0, cur_dir_idx |-> 0,
               pc |-> "init"]
    /\ turns = 0
    /\ NoRace /\ NoHarness

\* _phase_init of both games with the same outcomes of np.random.randint and
\* random.random
PhaseInitTwin ==
    /\ pc = "init" /\ Len(players) = 0
    /\ \E idx1 \in FreeDraws(board, size), val1 \in NewNumbers :
       \E b1 \in {AddNewNumber(board, idx1, val1, size)},
          t1 \in {AddNewNumber(twin.board, idx1, val1, size)} :
       \E idx2 \in FreeDraws(b1, size), val2 \in NewNumbers :
           /\ board' = AddNewNumber(b1, idx2, val2, size)
           /\ twin' = [twin EXCEPT !.board = AddNewNumber(t1, idx2, val2, size),
                                   !.pc = "loop"]
    /\ pc' = "loop"
    /\ UNCHANGED <<size, points, cur_dir_idx, strategy, plot, turns>>
    /\ UNCHANGED raceVars
    /\ UNCHANGED harnessVars

\* mutant of TurnTwin: the second game draws the value of its new number
\* itself
TurnTwinOwnValue ==
    /\ pc = "loop" /\ Len(players) = 0 /\ twin.pc = "loop"
    /\ \E rnd \in DirDraws :
       \E g \in {PhaseGetDir(strategy, cur_dir_idx, rnd)},
          g2 \in {PhaseGetDir(strategy, twin.cur_dir_idx, rnd)} :
       \E ph \in {Phases(board, g.dir, size)},
          ph2 \in {Phases(twin.board, g2.dir, size)} :
       \E idx \in FreeDraws(ph.move_to_dir_2_after, size), val \in NewNumbers,
          val2 \in NewNumbers :
       \E b \in {AddIfPerformed(ph, idx, val, size)},
          b2 \in {AddIfPerformed(ph2, idx, val2, size)} :
           /\ cur_dir_idx' = g.cur_dir_idx
           /\ board' = b
           /\ points' = points + ph.points
           /\ plot' = ph
           /\ pc' = IF ph.action_performed /\ PhaseCheckGameOver(b, size)
                    THEN "returned" ELSE "loop"
           /\ twin' = [board |-> b2,
                       points |-> twin.points + ph2.points,
                       cur_dir_idx |-> g2.cur_dir_idx,
                       pc |-> IF ph2.action_performed /\ PhaseCheckGameOver(b2, size)
                              THEN "returned" ELSE "loop"]
    /\ UNCHANGED <<size, strategy, turns>>
    /\ UNCHANGED raceVars
    /\ UNCHANGED harnessVars

\* one iteration of the while loop of run() in both games with the same
\* outcomes of random.choice, np.random.randint and random.random
TurnTwin ==
    /\ pc = "loop" /\ Len(players) = 0 /\ twin.pc = "loop"
    /\ \E rnd \in DirDraws :
       \E g \in {PhaseGetDir(strategy, cur_dir_idx, rnd)},
          g2 \in {PhaseGetDir(strategy, twin.cur_dir_idx, rnd)} :
       \E ph \in {Phases(board, g.dir, size)},
          ph2 \in {Phases(twin.board, g2.dir, size)} :
       \E idx \in FreeDraws(ph.move_to_dir_2_after, size), val \in NewNumbers :
       \E b \in {AddIfPerformed(ph, idx, val, size)},
          b2 \in {AddIfPerformed(ph2, idx, val, size)} :
           /\ cur_dir_idx' = g.cur_dir_idx
           /\ board' = b
           /\ points' = points + ph.points
           /\ plot' = ph
           /\ pc' = IF ph.action_performed /\ PhaseCheckGameOver(b, size)
                    THEN "returned" ELSE "loop"
           /\ twin' = [board |-> b2,
                       points |-> twin.points + ph2.points,
                       cur_dir_idx |-> g2.cur_dir_idx,
                       pc |-> IF ph2.action_performed /\ PhaseCheckGameOver(b2, size)
                              THEN "returned" ELSE "loop"]
    /\ UNCHANGED <<size, strategy, turns>>
    /\ UNCHANGED raceVars
    /\ UNCHANGED harnessVars

NextTwinPlayer == PlayTwin

SpecTwinPlayer == InitTwinPlayer /\ [][NextTwinPlayer]_vars

InitTwin == InitTwinPlayer \/ InitTwin2048

NextTwin == PlayTwin \/ PhaseInitTwin \/ TurnTwin

SpecTwin == InitTwin /\ [][NextTwin]_vars

(***************************************************************************)
(*        best_game_strategy.py and the run_stats methods                  *)
(* A float that results from dividing two integers is modelled by the      *)
(* fraction [num, den]; a trial (_run) is modelled by the value it         *)
(* returns, which is drawn from the values the engine can return.          *)
(***************************************************************************)

\* the largest repetition count whose trials are explored
MaxRep == 4

\* n_rep_base when -n is not given (best_game_strategy.py)
DefaultRep == 100000

\* the integer n seen as a float
Float(n) == [num |-> n, den |-> 1]

\* x / d for a float x and a positive integer d
Div(x, d) == [num |-> x.num, den |-> x.den * d]

\* x < y for floats with positive denominators
Less(x, y) == x.num * y.den < y.num * x.den

\* check_positive(value): TRUE if the value is returned, FALSE if
\* ArgumentTypeError is raised; value is int(value)
CheckPositiveAllowZero(value) == ~(value < 0)

CheckPositive(value) == ~(value <= 0)

\* "100000 if not args.n_rep else args.n_rep"
NRepBase(a) == IF ~a.n_rep_given THEN DefaultRep ELSE a.n_rep

\* the command lines: -g is one of the two games, -n is absent or an integer
Args ==
    [game : {"hoppel_poppel", "2048"}, n_rep_given : {FALSE}, n_rep : {0}]
      \cup [game : {"hoppel_poppel", "2048"}, n_rep_given : {TRUE},
            n_rep : (0 - 1)..MaxRep]

\* main: parse_args (with check_positive as the type of -n), then the call of
\* run_stats of the chosen game
Main ==
    /\ hpc = "main"
    /\ IF args.n_rep_given /\ ~CheckPositive(args.n_rep)
       THEN hpc' = "rejected" /\ n_rep' = n_rep
       ELSE hpc' = "run_stats" /\ n_rep' = NRepBase(args)
    /\ UNCHANGED <<args, combo_i, rep_i, wins, sum_points, all_wins,
                   all_points, max_index>>

\* all_partial_strategies_combinations of hoppel_poppel.run_stats:
\* itertools.product over (_StrategyDuplicates, _StrategyTest)
AllCombinations ==
    <<<<"RANDOM", "T1">>, <<"RANDOM", "T2">>,
      <<"AVOID_DUPLICATES", "T1">>, <<"AVOID_DUPLICATES", "T2">>,
      <<"FORCE_DUPLICATES", "T1">>, <<"FORCE_DUPLICATES", "T2">>>>

\* the player_strategies argument of the _run_stats call at position pos
PlayerStrategies(pos, i) ==
    CASE pos \in {"two_trials", "two_crossover"} ->
            <<<<"RANDOM", "T1">>, <<"RANDOM", "T1">>>>
      [] pos \in {"four_trials", "four_crossover"} ->
            <<<<"RANDOM", "T1">>, <<"RANDOM", "T1">>,
              <<"RANDOM", "T1">>, <<"RANDOM", "T1">>>>
      [] pos = "combo_trials" -> <<<<"RANDOM", "T1">>, AllCombinations[i + 1]>>

\* wins = {i: 0 for i in range(len(player_strategies))}
NewWins(player_strategies) ==
    [k \in 0..(Len(player_strategies) - 1) |-> Float(0)]

\* the values _run can return: the index of one of the players
RunResults(player_strategies) == 0..(Len(player_strategies) - 1)

\* mutant of TrialsLeft: the loop runs once more
TrialsLeftInclusive(i, n) == i <= n

\* "for i in range(n_rep)": the loop body runs for index i
TrialsLeft(i, n) == i < n

\* wins[win] += 1
CountWin(w, win) == [w EXCEPT ![win] = [@ EXCEPT !.num = @ + 1]]

\* sum(value for value in wins.values()), the values being integers
RECURSIVE Total(_, _)
Total(w, k) == IF k < 0 THEN 0 ELSE w[k].num + Total(w, k - 1)

\* _print_stats_simple: wins[player_index] /= total, in place
Normalized(w) ==
    [k \in DOMAIN w |-> Div(w[k], Total(w, Cardinality(DOMAIN w) - 1))]

\* hoppel_poppel.run_stats: the first call of _run_stats
RunStats ==
    /\ hpc = "run_stats" /\ args.game = "hoppel_poppel"
    /\ n_rep <= MaxRep
    /\ wins' = NewWins(PlayerStrategies("two_trials", 0))
    /\ rep_i' = 0
    /\ hpc' = "two_trials"
    /\ UNCHANGED <<args, n_rep, combo_i, sum_points, all_wins, all_points,
                   max_index>>

\* _run_stats: one iteration of the loop over range(n_rep)
Trial ==
    /\ hpc \in {"two_trials", "four_trials", "combo_trials"}
    /\ TrialsLeft(rep_i, n_rep)
    /\ \E win \in RunResults(PlayerStrategies(hpc, combo_i)) :
         wins' = CountWin(wins, win)
    /\ rep_i' = rep_i + 1
    /\ UNCHANGED <<args, n_rep, hpc, combo_i, sum_points, all_wins,
                   all_points, max_index>>

\* _run_stats returns; in the enumerate loop all_wins.append(wins); then
\* _print_stats_simple(wins), which normalises the dict (the one all_wins
\* holds) in place, dividing by the sum of its values; the enumerate loop goes
\* on or ends
PrintStatsSimple ==
    /\ hpc \in {"two_trials", "four_trials", "combo_trials"}
    /\ ~TrialsLeft(rep_i, n_rep)
    /\ CASE Total(wins, Cardinality(DOMAIN wins) - 1) = 0 ->
              /\ hpc' = "ZeroDivisionError"
              /\ UNCHANGED <<wins, combo_i, rep_i, all_wins>>
         [] OTHER ->
       CASE hpc = "two_trials" ->
              /\ wins' = Normalized(wins)
              /\ hpc' = "two_crossover"
              /\ UNCHANGED <<combo_i, rep_i, all_wins>>
         [] hpc = "four_trials" ->
              /\ wins' = Normalized(wins)
              /\ hpc' = "four_crossover"
              /\ UNCHANGED <<combo_i, rep_i, all_wins>>
         [] hpc = "combo_trials" ->
              /\ all_wins' = Append(all_wins, Normalized(wins))
              /\ IF combo_i + 1 < Len(AllCombinations)
                 THEN /\ combo_i' = combo_i + 1
                      /\ wins' = NewWins(PlayerStrategies("combo_trials", combo_i + 1))
                      /\ rep_i' = 0
                      /\ hpc' = "combo_trials"
                 ELSE /\ wins' = Normalized(wins)
                      /\ hpc' = "best"
                      /\ UNCHANGED <<combo_i, rep_i>>
    /\ UNCHANGED <<args, n_rep, sum_points, all_points, max_index>>

\* _print_stats_crossover: round(wins[player_a] / wins[player_b], 2) for all
\* pairs raises ZeroDivisionError if some wins[player_b] is 0.0; otherwise
\* run_stats goes on with its next _run_stats call
PrintStatsCrossover ==
    /\ hpc \in {"two_crossover", "four_crossover"}
    /\ IF \E player_b \in DOMAIN wins : wins[player_b].num = 0
       THEN /\ hpc' = "ZeroDivisionError"
            /\ UNCHANGED <<wins, rep_i, combo_i, all_wins>>
       ELSE IF hpc = "two_crossover"
       THEN /\ wins' = NewWins(PlayerStrategies("four_trials", 0))
            /\ rep_i' = 0
            /\ hpc' = "four_trials"
            /\ UNCHANGED <<combo_i, all_wins>>
       ELSE /\ all_wins' = <<>>
            /\ combo_i' = 0
            /\ wins' = NewWins(PlayerStrategies("combo_trials", 0))
            /\ rep_i' = 0
            /\ hpc' = "combo_trials"
    /\ UNCHANGED <<args, n_rep, sum_points, all_points, max_index>>

\* all_partial_strategies_combinations of game_2048.run_stats: the members
\* of _StrategyMove in definition order
AllCombinations2048 == <<"RANDOM", "ROTATE_CW", "ROTATE_CCW", "LDRD">>

\* the largest score of a trial that is explored
MaxTrialPoints == 8

\* the values _Game2048.run can return: every merge adds a multiple of 4
RunResults2048 == {pts \in 0..MaxTrialPoints : pts % 4 = 0}

\* game_2048.run_stats: the first call of _run_stats
RunStats2048 ==
    /\ hpc = "run_stats" /\ args.game = "2048"
    /\ n_rep <= MaxRep
    /\ all_points' = <<>>
    /\ combo_i' = 0
    /\ sum_points' = 0
    /\ rep_i' = 0
    /\ hpc' = "tile_trials"
    /\ UNCHANGED <<args, n_rep, wins, all_wins, max_index>>

\* game_2048._run_stats: one iteration of the loop over range(n_rep)
Trial2048 ==
    /\ hpc = "tile_trials"
    /\ TrialsLeft(rep_i, n_rep)
    /\ \E pts \in RunResults2048 : sum_points' = sum_points + pts
    /\ rep_i' = rep_i + 1
    /\ UNCHANGED <<args, n_rep, hpc, combo_i, wins, all_wins, all_points,
                   max_index>>

\* game_2048._run_stats: points /= n_rep and return; run_stats appends the
\* average to all_points and goes on with the next combination or ends
Average2048 ==
    /\ hpc = "tile_trials"
    /\ ~TrialsLeft(rep_i, n_rep)
    /\ IF n_rep = 0
       THEN /\ hpc' = "ZeroDivisionError"
            /\ UNCHANGED <<all_points, combo_i, sum_points, rep_i>>
       ELSE /\ all_points' = Append(all_points, Div(Float(sum_points), n_rep))
            /\ IF combo_i + 1 < Len(AllCombinations2048)
               THEN /\ combo_i' = combo_i + 1
                    /\ sum_points' = 0
                    /\ rep_i' = 0
                    /\ hpc' = "tile_trials"
               ELSE /\ hpc' = "best"
                    /\ UNCHANGED <<combo_i, sum_points, rep_i>>
    /\ UNCHANGED <<args, n_rep, wins, all_wins, max_index>>

\* mutant of MaxIndex: the last position of the maximum
MaxIndexLast(percentages) ==
    (CHOOSE i \in 1..Len(percentages) :
        /\ \A j \in 1..Len(percentages) : ~Less(percentages[i], percentages[j])
        /\ \A j \in (i + 1)..Len(percentages) : Less(percentages[j], percentages[i]))
    - 1

\* percentages.index(max(percentages)): the first position (0-based) of the
\* maximum
MaxIndex(percentages) ==
    (CHOOSE i \in 1..Len(percentages) :
        /\ \A j \in 1..Len(percentages) : ~Less(percentages[i], percentages[j])
        /\ \A j \in 1..(i - 1) : Less(percentages[j], percentages[i]))
    - 1

\* "percentages = [wins[1] for wins in all_wins]" (hoppel_poppel) and
\* "percentages = [points for points in all_points]" (game_2048)
Percentages ==
    IF args.game = "hoppel_poppel"
    THEN [k \in 1..Len(all_wins) |-> all_wins[k][1]]
    ELSE all_points

\* run_stats, "Print best strategy"
Best ==
    /\ hpc = "best"
    /\ max_index' = MaxIndex(Percentages)
    /\ hpc' = "done"
    /\ UNCHANGED <<args, n_rep, combo_i, rep_i, wins, sum_points, all_wins,
                   all_points>>

\* the program is started with some command line
InitHarness ==
    /\ args \in Args
    /\ hpc = "main"
    /\ n_rep = 0 /\ combo_i = 0 /\ rep_i = 0
    /\ wins = <<>> /\ sum_points = 0 /\ all_wins = <<>> /\ all_points = <<>>
    /\ max_index = 0
    /\ turns = 0 /\ twin = <<>>
    /\ NoRace /\ NoTile

engineVars == <<players, cur, winner, last,
                size, board, points, cur_dir_idx, strategy, pc, plot,
                turns, twin>>

NextHarness ==
    \/ Main /\ UNCHANGED engineVars
    \/ RunStats /\ UNCHANGED engineVars
    \/ Trial /\ UNCHANGED engineVars
    \/ PrintStatsSimple /\ UNCHANGED engineVars
    \/ PrintStatsCrossover /\ UNCHANGED engineVars
    \/ RunStats2048 /\ UNCHANGED engineVars
    \/ Trial2048 /\ UNCHANGED engineVars
    \/ Average2048 /\ UNCHANGED engineVars
    \/ Best /\ UNCHANGED engineVars

SpecHarness == InitHarness /\ [][NextHarness]_vars

(***************************************************************************)
(*                     Properties of the race player                       *)
(***************************************************************************)

PlayerIds == 1..Len(players)

\* the three pools (and the pools after the staging step) of player i
Reserve(i) == players[i].animals
Staging(i) == players[i].game_board_yellow_area
Track(i) == players[i].game_board

\* every animal has its two copies in the three lists of p, eight tokens in all
Conserved(p) ==
    /\ \A c \in AnimalSet :
         p.animals[c] + p.game_board_yellow_area[c] + p.game_board[c] = 2
    /\ Length(p.animals) + Length(p.game_board_yellow_area)
         + Length(p.game_board) = 8

\* C1: under every policy and after any sequence of turns the tokens of a
\* player in reserve + staging + track are exactly 8, two of each animal kind,
\* also between the staging step and the die action of a turn.
C1_TokensConserved ==
    /\ \A i \in PlayerIds : Conserved(players[i])
    /\ last.player # 0 => Conserved(last.staged)

\* C1 witness: after a take-one roll that moved a token back, all three pools
\* of the player hold tokens.
C1_Witness ==
    /\ last.player # 0 /\ last.die = "BLACK"
    /\ Length(last.staged.game_board) > 1
    /\ Length(Reserve(1)) > 0 /\ Length(Staging(1)) > 0 /\ Length(Track(1)) > 0

\* C2: in every reachable state, under each of the three policies, the
\* staging area holds at most 2 tokens (at the end of a turn and right after
\* the staging step).
C2_StagingAtMostTwo ==
    /\ \A i \in PlayerIds : Length(Staging(i)) <= 2
    /\ last.player # 0 => Length(last.staged.game_board_yellow_area) <= 2

\* C2 witness: a turn started with a full staging area and a non-empty
\* reserve, and the staging area is still full at its end.
C2_Witness ==
    /\ last.player # 0
    /\ Length(last.before.game_board_yellow_area) = 2
    /\ Length(last.before.animals) > 0
    /\ Length(Staging(1)) = 2

\* C3: a turn returns won = true exactly if reserve and staging are both empty
\* at its end, the driver returns exactly then, and in every reachable state
\* reserve and staging are both empty exactly if all 8 tokens are on the track.
C3_WonIffAllOnTrack ==
    /\ \A i \in PlayerIds :
         (Length(Reserve(i)) = 0 /\ Length(Staging(i)) = 0)
            <=> (Length(Track(i)) = 8)
    /\ last.player # 0 =>
         /\ last.won <=> (Length(Reserve(last.player)) = 0
                            /\ Length(Staging(last.player)) = 0)
         /\ last.won <=> (winner = last.player)
    /\ last.player = 0 => winner = 0

\* C3 witness: a turn has returned won = true.
C3_Witness == last.player # 0 /\ last.won /\ Length(Track(last.player)) = 8

\* C4 (as claimed): right after the staging step of any turn the staging area
\* holds 2 tokens or the reserve is empty.
C4_StagingFilled ==
    last.player # 0 =>
        \/ Length(last.staged.game_board_yellow_area) = 2
        \/ Length(last.staged.animals) = 0

(***************************************************************************)
(*                      Properties of the tile game                        *)
(***************************************************************************)

Idx(n) == 0..(n - 1)

\* a turn has been played (plot holds its snapshots)
Played == plot.dir # "NONE"

\* row r (LEFT, RIGHT) or column r (UP, DOWN) of b, as the line along d
LineOf(b, d, i, n) == IF d \in {"LEFT", "RIGHT"} THEN b[i] ELSE Column(b, i, n)

\* the tiles of a line in index order, empty cells left out
RECURSIVE TilesFrom(_, _, _)
TilesFrom(l, i, n) ==
    IF i > n - 1 THEN <<>>
    ELSE IF l[i] = 0 THEN TilesFrom(l, i + 1, n)
    ELSE <<l[i]>> \o TilesFrom(l, i + 1, n)

Tiles(l, n) == TilesFrom(l, 0, n)

NoEmptyCell(b, n) == \A r \in Idx(n), c \in Idx(n) : b[r][c] # 0

NoEqualNeighbours(b, n) ==
    /\ \A r \in Idx(n), c \in 0..(n - 2) : b[r][c] # b[r][c + 1]
    /\ \A r \in 0..(n - 2), c \in Idx(n) : b[r][c] # b[r + 1][c]

\* C5: whenever run() has left its loop, the board has no empty cell and no
\* two horizontally or vertically adjacent cells hold equal values.
C5_TerminalBoard ==
    pc = "returned" => NoEmptyCell(board, size) /\ NoEqualNeighbours(board, size)

\* C5 witness: a run has ended, its last turn having merged tiles.
C5_Witness == pc = "returned" /\ plot.points > 0

\* the tiles formed by the merge step: cells that hold twice what they held
\* before it
NewTileSum(pre, post, n) ==
    LET v == [k \in 0..(n * n - 1) |->
                LET r == k \div n
                    c == k % n
                IN  IF pre[r][c] # 0 /\ post[r][c] = 2 * pre[r][c]
                    THEN post[r][c] ELSE 0]
    IN  SumTo(v, n * n - 1)

\* what a sequence of tiles yields when merged pairwise: every maximal run of
\* k equal tiles v forms k \div 2 tiles 2v
RECURSIVE PairGain(_)
PairGain(t) ==
    IF Len(t) < 2 THEN 0
    ELSE IF t[1] = t[2] THEN 2 * t[1] + PairGain(SubSeq(t, 3, Len(t)))
    ELSE PairGain(Tail(t))

BoardPairGain(b, d, n) ==
    LET g == [i \in 0..(n - 1) |-> PairGain(Tiles(LineOf(b, d, i, n), n))]
    IN  SumTo(g, n - 1)

\* C6: the score never decreases, and a turn raises it by exactly the sum of
\* the values of the tiles formed by merging in that turn, each counted once
\* (_phase_init, compaction and the added number contribute nothing).
C6_ScoreByMerges ==
    [][/\ points' >= points
       /\ pc = "init" => points' = points
       /\ pc = "loop" =>
            /\ points' - points =
                 NewTileSum(plot'.move_to_dir_1_after,
                            plot'.merge_neighbours_after, size)
            /\ points' - points = BoardPairGain(board, plot'.dir, size)]_vars

\* C6 witness: a turn formed two tiles at once and the score was already
\* positive before it.
C6_Witness ==
    /\ Played
    /\ 0 < points - plot.points
    /\ Cardinality({rc \in Cells(size) :
          /\ plot.move_to_dir_1_after[rc[1]][rc[2]] # 0
          /\ plot.merge_neighbours_after[rc[1]][rc[2]]
               = 2 * plot.move_to_dir_1_after[rc[1]][rc[2]]}) = 2

\* C10: a turn in which neither the first compaction nor the merge changes
\* anything leaves the board and the score unchanged, adds no number and does
\* not end the game; the game only ends after a turn that changed something.
C10_IneffectiveTurn ==
    [][pc = "loop" =>
         LET unchanged == /\ plot'.move_to_dir_1_after = board
                          /\ plot'.merge_neighbours_after = board
         IN  /\ unchanged => board' = board /\ points' = points /\ pc' = "loop"
             /\ pc' = "returned" => ~unchanged]_vars

\* C10 witness: a turn that changed nothing has been played on a board with an
\* empty cell, and the game goes on.
C10_Witness ==
    /\ Played /\ pc = "loop"
    /\ plot.move_to_dir_1_after = plot.start
    /\ plot.merge_neighbours_after = plot.start
    /\ board = plot.start
    /\ FreeCells(board, size) # {}

\* the cell of a line that lies k places from the edge the tiles move to
FromEdge(d, k, n) == IF d \in {"LEFT", "UP"} THEN k ELSE n - 1 - k

\* merge scan that starts at the edge of direction d: the pair nearest that
\* edge merges first, into the cell nearer the edge; k counts from the edge
RECURSIVE EdgeMergeLoop(_, _, _, _)
EdgeMergeLoop(l, d, k, n) ==
    IF k > n - 2 THEN l
    ELSE LET a == FromEdge(d, k, n)
             b == FromEdge(d, k + 1, n)
         IN  IF l[a] # 0 /\ l[a] = l[b]
             THEN EdgeMergeLoop([l EXCEPT ![a] = 2 * l[a], ![b] = 0], d, k + 1, n)
             ELSE EdgeMergeLoop(l, d, k + 1, n)

\* C7 (as claimed): in the merge step for direction d the equal pairs are
\* scanned from the d edge in each of the four directions, so of three equal
\* tiles a, a, a in a compacted line the two nearest the d edge merge (RIGHT
\* on [0, a, a, a] ends as [0, 0, a, 2a]).
C7_MergeFromEdge ==
    Played =>
      \A i \in Idx(size) :
        LineOf(plot.move_to_dir_2_after, plot.dir, i, size)
          = MoveLine(EdgeMergeLoop(LineOf(plot.move_to_dir_1_after,
                                          plot.dir, i, size),
                                   plot.dir, 0, size),
                     plot.dir, size).line

\* a sequence of tiles after is what before yields when every tile is kept or
\* merged once with an equal neighbour: after splits before into consecutive
\* groups of one tile or of two equal tiles
RECURSIVE MergedOnce(_, _)
MergedOnce(before, after) ==
    IF Len(before) = 0 THEN Len(after) = 0
    ELSE /\ Len(after) > 0
         /\ \/ after[1] = before[1] /\ MergedOnce(Tail(before), Tail(after))
            \/ /\ Len(before) >= 2
               /\ before[1] = before[2]
               /\ after[1] = 2 * before[1]
               /\ MergedOnce(Tail(Tail(before)), Tail(after))

\* C8: within one turn a tile produced by a merge is not merged again: in
\* every line and direction the tiles after the turn are the tiles before the
\* merge step, each kept or merged once with an equal neighbour, so every cell
\* ends as 0, v or 2v for a tile v of its line before the merge step (LEFT on
\* [2, 2, 4, 0] gives [4, 4, 0, 0], not [8, 0, 0, 0]).
C8_MergedOnlyOnce ==
    Played =>
      \A i \in Idx(size) :
        LET pre == LineOf(plot.move_to_dir_1_after, plot.dir, i, size)
            fin == LineOf(plot.move_to_dir_2_after, plot.dir, i, size)
        IN  /\ MergedOnce(Tiles(pre, size), Tiles(fin, size))
            /\ \A c \in Idx(size) :
                 \/ fin[c] = 0
                 \/ \E k \in Idx(size) :
                      pre[k] # 0 /\ (fin[c] = pre[k] \/ fin[c] = 2 * pre[k])

\* C8 witness: LEFT on a row [2, 2, 4, 0] of a board of DefaultSize gave
\* [4, 4, 0, 0].
C8_Witness ==
    /\ Played /\ size = DefaultSize /\ plot.dir = "LEFT"
    /\ \E r \in Idx(size) :
         /\ plot.start[r] = [c \in Idx(size) |-> <<2, 2, 4, 0>>[c + 1]]
         /\ board[r] = [c \in Idx(size) |-> <<4, 4, 0, 0>>[c + 1]]

\* a turn in direction d on board b would perform no compaction and no merge
NoAction(b, d, n) ==
    LET m1 == PhaseMoveToDir(b, d, n).board
    IN  m1 = b /\ PhaseMergeNeighbours(m1, d, n).board = m1

RECURSIVE PowerOfTwo(_)
PowerOfTwo(v) == v >= 2 /\ (v = 2 \/ (v % 2 = 0 /\ PowerOfTwo(v \div 2)))

\* every cell of b is empty or holds a power of two
TileBoard(b, n) ==
    \A r \in Idx(n), c \in Idx(n) : b[r][c] = 0 \/ PowerOfTwo(b[r][c])

\* C11: in every reachable state of a game every cell of the grid is 0 or a
\* power of two >= 2; this also holds for the grid between the phases of a
\* turn.
C11_PowersOfTwo ==
    /\ TileBoard(board, size)
    /\ Played =>
         /\ TileBoard(plot.start, size)
         /\ TileBoard(plot.move_to_dir_1_after, size)
         /\ TileBoard(plot.merge_neighbours_after, size)
         /\ TileBoard(plot.move_to_dir_2_after, size)

\* C11 witness: a turn merged two 8s into a 16 next to other tiles.
C11_Witness ==
    /\ Played
    /\ \E r \in Idx(size), c \in Idx(size) :
         /\ plot.move_to_dir_1_after[r][c] = 8
         /\ plot.merge_neighbours_after[r][c] = 16
    /\ \E r \in Idx(size), c \in Idx(size) : board[r][c] \in {2, 4}

\* the tiles of line l lie against the edge of direction d without a gap
Packed(l, d, n) ==
    \A i \in Idx(n), j \in Idx(n) :
       i < j => IF d \in {"LEFT", "UP"} THEN l[j] # 0 => l[i] # 0
                                        ELSE l[i] # 0 => l[j] # 0

\* compaction of b in direction d packs every line against the d edge, keeps
\* the tiles of every line in their order, and reports whether a cell moved
Compacted(b, d, n) ==
    \E res \in {PhaseMoveToDir(b, d, n)} :
       /\ \A i \in Idx(n) :
            /\ Packed(LineOf(res.board, d, i, n), d, n)
            /\ Tiles(LineOf(res.board, d, i, n), n) = Tiles(LineOf(b, d, i, n), n)
       /\ res.action_performed <=> res.board # b

\* C12: for every grid and each of the four directions d the compaction moves
\* the non-zero cells of every row (column) against the d edge with no gaps,
\* keeps their relative order and values (nothing merges), and returns true
\* iff at least one cell changed position. Checked for the grid at the head of
\* a turn and for the grid the merge phase leaves.
C12_Compaction ==
    /\ \A d \in DirSet : Compacted(board, d, size)
    /\ Played =>
         /\ plot.move_to_dir_1_after = PhaseMoveToDir(plot.start, plot.dir, size).board
         /\ \A d \in DirSet : Compacted(plot.merge_neighbours_after, d, size)

\* C12 witness: LEFT on a row [0, 2, 0, 4] of a board of DefaultSize was
\* compacted to [2, 4, 0, 0] over two gaps.
C12_Witness ==
    /\ Played /\ size = DefaultSize /\ plot.dir = "LEFT"
    /\ \E r \in Idx(size) :
         /\ plot.start[r] = [c \in Idx(size) |-> <<0, 2, 0, 4>>[c + 1]]
         /\ plot.move_to_dir_1_after[r] = [c \in Idx(size) |-> <<2, 4, 0, 0>>[c + 1]]
         /\ PhaseMoveToDir(plot.start, "LEFT", size).action_performed

\* the board of DefaultSize whose row 0 is the tuple row0 and whose other
\* cells are empty
TopRowBoard(row0) ==
    [r \in Idx(DefaultSize) |->
        [c \in Idx(DefaultSize) |-> IF r = 0 THEN row0[c + 1] ELSE 0]]

\* C13: on a 4x4 grid whose only tiles are a 2 at (0,0) and a 2 at (0,1), a
\* Left turn (before any spawn) leaves row 0 = [4, 0, 0, 0] and every other
\* cell 0, raises the score by exactly 4 and has action_performed = true.
C13_LeftMergesPair ==
    (/\ Played /\ size = DefaultSize /\ plot.dir = "LEFT"
     /\ plot.start = TopRowBoard(<<2, 2, 0, 0>>))
    => /\ board = TopRowBoard(<<4, 0, 0, 0>>)
       /\ plot.points = 4 /\ points = 4
       /\ plot.action_performed

\* C13 witness: the Left turn on that grid has been played.
C13_Witness ==
    /\ Played /\ size = DefaultSize /\ plot.dir = "LEFT"
    /\ plot.start = TopRowBoard(<<2, 2, 0, 0>>)
    /\ plot.merge_neighbours_after = TopRowBoard(<<4, 0, 0, 0>>)

(***************************************************************************)
(*                 hoppel_poppel.py: the steps of a turn                   *)
(***************************************************************************)

\* a turn has been played (last holds the player before it, the player after
\* its staging step, and the die)
TurnPlayed == last.player # 0

\* the three lists of p and q are the same
SamePools(p, q) ==
    /\ p.animals = q.animals
    /\ p.game_board_yellow_area = q.game_board_yellow_area
    /\ p.game_board = q.game_board

\* p starts a turn with one token outside the board, an empty yellow area and
\* the other seven tokens in the game area
LastTokenOutside(p) ==
    /\ Length(p.animals) = 1
    /\ Length(p.game_board_yellow_area) = 0
    /\ Length(p.game_board) = 7

\* C14 (as claimed): for a player who starts a turn with exactly one token in
\* the reserve, an empty staging area and the other 7 tokens on the track, a
\* turn whose roll is place-both changes none of the three pools and returns
\* win = false.
C14_LastTokenNoOp ==
    (TurnPlayed /\ LastTokenOutside(last.before) /\ last.die = "WHITE")
    => /\ SamePools(players[last.player], last.before)
       /\ ~last.won

\* C14 (amended): for such a player a turn whose roll is place-both first
\* stages the reserve token, then moves it to the track: the turn ends with
\* reserve and staging empty, all 8 tokens on the track, and returns
\* win = true.
C14_LastTokenWins ==
    (TurnPlayed /\ LastTokenOutside(last.before) /\ last.die = "WHITE")
    => /\ Length(last.staged.animals) = 0
       /\ last.staged.game_board_yellow_area = last.before.animals
       /\ Length(Reserve(last.player)) = 0
       /\ Length(Staging(last.player)) = 0
       /\ Track(last.player) = [c \in AnimalSet |-> 2]
       /\ last.won /\ winner = last.player

\* C14 witness: a player with one reserve token, empty staging and 7 tokens on
\* the track has played a turn with the roll place-both.
C14_Witness ==
    /\ TurnPlayed /\ LastTokenOutside(last.before) /\ last.die = "WHITE"
    /\ Length(last.staged.game_board_yellow_area) = 1
    /\ Length(Track(last.player)) = 8

\* C15: when the roll is an animal kind k: if the staging area (after the
\* staging step) holds at least one token of kind k, exactly one such token
\* moves from staging to the track (also when staging holds two of kind k) and
\* nothing else changes; otherwise reserve, staging and track are left
\* unchanged by the roll action.
C15_AnimalRoll ==
    (TurnPlayed /\ last.die \in AnimalSet) =>
       IF last.staged.game_board_yellow_area[last.die] >= 1
       THEN /\ Staging(last.player) =
                 [last.staged.game_board_yellow_area EXCEPT ![last.die] = @ - 1]
            /\ Track(last.player) =
                 [last.staged.game_board EXCEPT ![last.die] = @ + 1]
            /\ Reserve(last.player) = last.staged.animals
       ELSE SamePools(players[last.player], last.staged)

\* C15 witness: the staging area held two tokens of the kind rolled; one of
\* them is now on the track, the other still staged.
C15_Witness ==
    /\ TurnPlayed /\ last.die \in AnimalSet
    /\ last.staged.game_board_yellow_area[last.die] = 2
    /\ Staging(last.player)[last.die] = 1
    /\ Track(last.player)[last.die] = 1

\* C16: when the roll is place-both, every token that is in staging after the
\* staging step moves to the track, staging becomes empty, and the reserve is
\* unchanged by the roll action.
C16_PlaceBoth ==
    (TurnPlayed /\ last.die = "WHITE") =>
       /\ Track(last.player) =
            [c \in AnimalSet |-> last.staged.game_board[c]
                                   + last.staged.game_board_yellow_area[c]]
       /\ Length(Staging(last.player)) = 0
       /\ Reserve(last.player) = last.staged.animals

\* C16 witness: place-both was rolled with two tokens of different kinds
\* staged and tokens already on the track.
C16_Witness ==
    /\ TurnPlayed /\ last.die = "WHITE"
    /\ Length(last.staged.game_board_yellow_area) = 2
    /\ \E c \in AnimalSet : last.staged.game_board_yellow_area[c] = 1
    /\ Length(last.staged.game_board) > 0
    /\ ~last.won

\* C17: when the roll is recall-one: if the track holds 0 or 1 token, no pool
\* changes; if it holds 2 or more, exactly one token moves from the track to
\* the reserve under every policy, and staging is unchanged by the roll action.
C17_RecallOne ==
    (TurnPlayed /\ last.die = "BLACK") =>
       IF Length(last.staged.game_board) <= 1
       THEN SamePools(players[last.player], last.staged)
       ELSE /\ \E c \in AnimalSet :
                 /\ last.staged.game_board[c] >= 1
                 /\ Track(last.player) =
                      [last.staged.game_board EXCEPT ![c] = @ - 1]
                 /\ Reserve(last.player) =
                      [last.staged.animals EXCEPT ![c] = @ + 1]
            /\ Staging(last.player) = last.staged.game_board_yellow_area

\* C17 witness: recall-one was rolled with exactly one token on the track and
\* that token stayed there.
C17_Witness ==
    /\ TurnPlayed /\ last.die = "BLACK"
    /\ Length(last.staged.game_board) = 1
    /\ Length(Track(last.player)) = 1

\* recall-one was rolled with two or more tokens on the track and one of them
\* went back to the reserve
Recalled ==
    /\ TurnPlayed /\ last.die = "BLACK"
    /\ Length(last.staged.game_board) >= 2
    /\ Length(Track(last.player)) = Length(last.staged.game_board) - 1
    /\ Length(Reserve(last.player)) = Length(last.staged.animals) + 1

\* the staging step of the last turn moved exactly one token, of kind c, from
\* the reserve to the staging area
StagedExactly(c) ==
    /\ last.before.animals[c] >= 1
    /\ last.staged.animals = [last.before.animals EXCEPT ![c] = @ - 1]
    /\ last.staged.game_board_yellow_area =
         [last.before.game_board_yellow_area EXCEPT ![c] = @ + 1]
    /\ last.staged.game_board = last.before.game_board

\* the staging step of the last turn had room in the staging area and a token
\* in the reserve
CanStage ==
    /\ Length(last.before.game_board_yellow_area) < 2
    /\ Length(last.before.animals) > 0

\* the kinds with n copies in the reserve and none staged, at the start of the
\* last turn
UnstagedWith(n) ==
    {c \in AnimalSet : last.before.animals[c] = n
                         /\ last.before.game_board_yellow_area[c] = 0}

\* C18: under AvoidDuplicates the staging step picks by strict priority: a
\* kind with both copies in the reserve and not staged; else a kind with
\* exactly one copy in the reserve and not staged; else any reserve token.
\* Consequently the staging area never comes to hold two tokens of one kind
\* while the reserve contained a token of a kind different from the one
\* already staged.
C18_AvoidPriority ==
    (TurnPlayed /\ last.before.strategy_duplicates = "AVOID_DUPLICATES") =>
       /\ IF CanStage
          THEN \E c \in AnimalSet :
                  /\ StagedExactly(c)
                  /\ UnstagedWith(2) # {} => c \in UnstagedWith(2)
                  /\ (UnstagedWith(2) = {} /\ UnstagedWith(1) # {})
                        => c \in UnstagedWith(1)
          ELSE SamePools(last.staged, last.before)
       /\ \A k \in AnimalSet :
            (/\ last.before.game_board_yellow_area[k] = 1
             /\ last.staged.game_board_yellow_area[k] = 2)
            => \A c \in AnimalSet \ {k} : last.before.animals[c] = 0

\* C18 witness: under AvoidDuplicates the reserve held nothing but the second
\* copy of the staged kind, and the staging step staged it as a duplicate.
C18_Witness ==
    /\ TurnPlayed /\ last.before.strategy_duplicates = "AVOID_DUPLICATES"
    /\ \E k \in AnimalSet :
         /\ last.before.game_board_yellow_area[k] = 1
         /\ last.before.animals[k] = 1
         /\ Length(last.before.animals) = 1
         /\ last.staged.game_board_yellow_area[k] = 2

\* C19: under ForceDuplicates a staging step that finds the staging area empty
\* and some kind with both copies in the reserve stages both copies of one
\* such kind in that single turn; with one staged token whose second copy is
\* in the reserve it stages that second copy; only otherwise does it stage an
\* arbitrary reserve token (if there is room and a token).
C19_ForcePairs ==
    (TurnPlayed /\ last.before.strategy_duplicates = "FORCE_DUPLICATES") =>
       IF Length(last.before.game_board_yellow_area) = 0
            /\ \E c \in AnimalSet : last.before.animals[c] = 2
       THEN \E c \in AnimalSet :
               /\ last.before.animals[c] = 2
               /\ last.staged.animals = [last.before.animals EXCEPT ![c] = 0]
               /\ last.staged.game_board_yellow_area =
                    [k \in AnimalSet |-> IF k = c THEN 2 ELSE 0]
               /\ last.staged.game_board = last.before.game_board
       ELSE IF \E c \in AnimalSet :
                  /\ Length(last.before.game_board_yellow_area) = 1
                  /\ last.before.game_board_yellow_area[c] = 1
                  /\ last.before.animals[c] = 1
       THEN \E c \in AnimalSet :
               /\ last.before.game_board_yellow_area[c] = 1
               /\ StagedExactly(c)
       ELSE IF CanStage
       THEN \E c \in AnimalSet : StagedExactly(c)
       ELSE SamePools(last.staged, last.before)

\* C19 witness: under ForceDuplicates one token was staged and its second copy
\* lay in the reserve beside a token of another kind; the staging step staged
\* the second copy.
C19_Witness ==
    /\ TurnPlayed /\ last.before.strategy_duplicates = "FORCE_DUPLICATES"
    /\ \E k \in AnimalSet :
         /\ Length(last.before.game_board_yellow_area) = 1
         /\ last.before.game_board_yellow_area[k] = 1
         /\ last.before.animals[k] = 1
         /\ Length(last.before.animals) > 1
         /\ last.staged.game_board_yellow_area[k] = 2

\* the kinds with n copies on the track when the die action of the last turn
\* began
OnTrackWith(n) == {c \in AnimalSet : last.staged.game_board[c] = n}

\* C20: on a recall-one roll with at least 2 tokens on the track,
\* AvoidDuplicates recalls a token of a kind that has exactly 2 copies on the
\* track whenever such a kind exists, ForceDuplicates recalls a token of a
\* kind that has exactly 1 copy on the track whenever such a kind exists; an
\* arbitrary track token is recalled only when no such kind exists.
C20_RecallChoice ==
    (TurnPlayed /\ last.die = "BLACK" /\ Length(last.staged.game_board) >= 2) =>
       \E c \in AnimalSet :
          /\ last.staged.game_board[c] >= 1
          /\ Track(last.player) = [last.staged.game_board EXCEPT ![c] = @ - 1]
          /\ (last.staged.strategy_duplicates = "AVOID_DUPLICATES"
                /\ OnTrackWith(2) # {}) => c \in OnTrackWith(2)
          /\ (last.staged.strategy_duplicates = "FORCE_DUPLICATES"
                /\ OnTrackWith(1) # {}) => c \in OnTrackWith(1)

\* C20 witness: under AvoidDuplicates the track held kinds with one copy and
\* kinds with two copies, and a token of a kind with two copies was recalled.
C20_Witness ==
    /\ Recalled /\ last.staged.strategy_duplicates = "AVOID_DUPLICATES"
    /\ OnTrackWith(1) # {} /\ OnTrackWith(2) # {}
    /\ \E c \in OnTrackWith(2) : Track(last.player)[c] = 1

\* every list of p holds between 0 and 2 copies of every animal
WellFormed(p) ==
    \A c \in AnimalSet :
       /\ p.animals[c] \in 0..2
       /\ p.game_board_yellow_area[c] \in 0..2
       /\ p.game_board[c] \in 0..2

\* on player p each step that finds no eligible token changes nothing
NoOpWithoutToken(p) ==
    /\ Length(p.animals) = 0 =>
         \A rnd \in Draws(p.animals) : MoveAnimalToYellowArea(p, rnd) = p
    /\ \A c \in AnimalSet :
         p.game_board_yellow_area[c] = 0 => MoveAnimalToGameArea(p, c) = p
    /\ Length(p.game_board_yellow_area) = 0 => MoveAnimalToGameArea(p, "WHITE") = p
    /\ Length(p.game_board) < 2 =>
         \A rnd \in Draws(p.game_board) : TakeAnimalFromGameArea(p, rnd) = p

\* C25: no race turn faults. In every reachable state (and in the state
\* between the staging step and the die action) and for every roll and policy,
\* staging with an empty reserve, placing a kind that is not staged, place-both
\* with an empty staging area and recall with fewer than 2 tokens on the track
\* change nothing; no step takes a token out of a list that does not hold it
\* (every count stays between 0 and 2), and a step that moved a token by a
\* random pick found the pool it picked from non-empty.
C25_NoFault ==
    /\ \A i \in PlayerIds : WellFormed(players[i]) /\ NoOpWithoutToken(players[i])
    /\ TurnPlayed =>
         /\ WellFormed(last.staged) /\ NoOpWithoutToken(last.staged)
         /\ Length(last.before.animals) = 0 => SamePools(last.staged, last.before)
         /\ ~SamePools(last.staged, last.before) =>
              \E c \in AnimalSet : last.before.animals[c] >= 1
                                     /\ last.staged.animals[c] < last.before.animals[c]
         /\ (last.die \in AnimalSet
               /\ last.staged.game_board_yellow_area[last.die] = 0)
              => SamePools(players[last.player], last.staged)
         /\ (last.die = "WHITE" /\ Length(last.staged.game_board_yellow_area) = 0)
              => SamePools(players[last.player], last.staged)
         /\ (last.die = "BLACK" /\ Length(last.staged.game_board) < 2)
              => SamePools(players[last.player], last.staged)

\* C25 witness: a turn that found the reserve empty and rolled an animal that
\* was not staged has changed nothing, with one token left in the staging
\* area.
C25_Witness ==
    /\ TurnPlayed
    /\ Length(last.before.animals) = 0
    /\ Length(last.before.game_board_yellow_area) = 1
    /\ last.die \in AnimalSet
    /\ last.staged.game_board_yellow_area[last.die] = 0
    /\ SamePools(players[last.player], last.before)

(***************************************************************************)
(*                 game_2048.py: the direction strategies                  *)
(***************************************************************************)

\* the direction sequence of a deterministic strategy, as one period
DirSequence(strat) ==
    CASE strat = "ROTATE_CW" -> <<"LEFT", "UP", "RIGHT", "DOWN">>
      [] strat = "ROTATE_CCW" -> <<"LEFT", "DOWN", "RIGHT", "UP">>
      [] strat = "LDRD" -> <<"LEFT", "DOWN", "RIGHT", "DOWN", "UP">>

\* the number of turns (modulo the period) a game of strategy strat has
\* played when its cursor is idx
SequencePos(strat, idx) ==
    IF strat = "ROTATE_CCW" THEN (4 - idx) % 4 ELSE idx

\* C21: from a fresh game (position 0) RotateClockwise plays Left, Up, Right,
\* Down with period 4, RotateCounterClockwise plays Left, Down, Right, Up with
\* period 4, LeftDownRightDownPattern plays Left, Down, Right, Down, Up with
\* period 5: every turn plays the direction at the current position of the
\* sequence and advances the position by exactly one step, whether or not the
\* turn performed an action; the init phase leaves the position alone.
C21_DirectionSequences ==
    /\ cur_dir_idx = 0
    /\ [][(/\ pc = "init" => cur_dir_idx' = cur_dir_idx
           /\ (pc = "loop" /\ strategy # "RANDOM") =>
                LET seq == DirSequence(strategy)
                    pos == SequencePos(strategy, cur_dir_idx)
                IN  /\ plot'.dir = seq[pos + 1]
                    /\ SequencePos(strategy, cur_dir_idx') = (pos + 1) % Len(seq))]_vars

\* C21 witness: a LeftDownRightDownPattern game has played its fifth
\* direction, Up, and is back at the head of the sequence, after a turn that
\* performed no action.
C21_Witness ==
    /\ strategy = "LDRD" /\ Played /\ pc = "loop"
    /\ plot.dir = "UP" /\ cur_dir_idx = 0
    /\ ~plot.action_performed

(***************************************************************************)
(*               hoppel_poppel.py: the round-robin driver                  *)
(***************************************************************************)

\* the three lists of p are those of a new _Player
Fresh(p) ==
    /\ p.animals = [c \in AnimalSet |-> 2]
    /\ Length(p.game_board_yellow_area) = 0
    /\ Length(p.game_board) = 0

RaceTrials == {"two_trials", "four_trials", "combo_trials"}

\* the number of players of the _run_stats call the harness is in
PlayerCount ==
    CASE hpc \in {"two_trials", "two_crossover"} -> 2
      [] hpc \in {"four_trials", "four_crossover"} -> 4
      [] OTHER -> 2

\* the sum of the numerators of a wins dict
RECURSIVE WinSum(_, _)
WinSum(w, S) ==
    IF S = {} THEN 0
    ELSE LET k == CHOOSE x \in S : TRUE IN w[k].num + WinSum(w, S \ {k})

\* C23: for every strategy combination the harness runs exactly N trials and
\* produces exactly one aggregate entry. Race game: while _run_stats counts,
\* the wins dict has one key per player and its counts sum to the number of
\* trials run, which never exceeds N and is N when _run_stats returns; each
\* combination adds one entry to all_wins, at the position of the combination.
\* Tile game: each trial adds its score to the sum, and when N trials are done
\* the entry sum / N is appended at the position of the combination.
C23_TrialsAndEntries ==
    /\ [](rep_i <= n_rep \/ hpc \in {"main", "rejected"})
    /\ [](hpc \in RaceTrials =>
            /\ DOMAIN wins = 0..(PlayerCount - 1)
            /\ WinSum(wins, DOMAIN wins) = rep_i
            /\ \A k \in DOMAIN wins : wins[k].den = 1)
    /\ [](hpc = "combo_trials" => Len(all_wins) = combo_i)
    /\ [](hpc = "tile_trials" => Len(all_points) = combo_i)
    /\ [](hpc \in {"best", "done"} =>
            IF args.game = "hoppel_poppel"
            THEN /\ Len(all_wins) = 6
                 /\ \A k \in 1..6 :
                      /\ DOMAIN all_wins[k] = {0, 1}
                      /\ all_wins[k][0].num + all_wins[k][1].num = n_rep
                      /\ all_wins[k][0].den = n_rep /\ all_wins[k][1].den = n_rep
            ELSE /\ Len(all_points) = 4
                 /\ \A k \in 1..4 : all_points[k].den = n_rep)
    /\ [][/\ (hpc \in RaceTrials /\ (hpc' # hpc \/ rep_i' = 0)) =>
               /\ rep_i = n_rep
               /\ WinSum(wins, DOMAIN wins) = n_rep
          /\ (hpc = "combo_trials" /\ all_wins' # all_wins) =>
               /\ Len(all_wins') = combo_i + 1
               /\ \A k \in 1..combo_i : all_wins'[k] = all_wins[k]
               /\ \A pl \in {0, 1} : all_wins'[combo_i + 1][pl].num = wins[pl].num
          /\ (hpc = "tile_trials" /\ hpc' = hpc /\ combo_i' = combo_i) =>
               /\ rep_i' = rep_i + 1
               /\ sum_points' - sum_points \in RunResults2048
               /\ all_points' = all_points
          /\ (hpc = "tile_trials" /\ (hpc' # hpc \/ combo_i' # combo_i)) =>
               /\ rep_i = n_rep
               /\ all_points' = Append(all_points, [num |-> sum_points, den |-> n_rep])
               /\ Len(all_points') = combo_i + 1]_vars

\* C23 witness: a race statistics run with N = MaxRep has finished with one
\* entry for each of the six combinations, the second player having won all
\* trials of one combination and none of another.
C23_Witness ==
    /\ hpc = "done" /\ args.game = "hoppel_poppel" /\ n_rep = MaxRep
    /\ Len(all_wins) = 6
    /\ \E k \in 1..6 : all_wins[k][1].num = n_rep
    /\ \E k \in 1..6 : all_wins[k][1].num = 0

\* x and y are the same number
SameValue(x, y) == ~Less(x, y) /\ ~Less(y, x)

\* the aggregate metric of the combination at position k (1-based): the average
\* score in the tile game, the result of player index 1 in the race game
Metric(k) ==
    IF args.game = "hoppel_poppel" THEN all_wins[k][1] ELSE all_points[k]

CombinationCount == IF args.game = "hoppel_poppel" THEN 6 ELSE 4

\* C24: the combination the harness selects has a metric greater than or equal
\* to that of every other combination, and among the combinations sharing the
\* maximum it is the first in enumeration order; in the race game the metric
\* is the result of player index 1, player index 0 being (RANDOM, T1).
C24_ArgMax ==
    hpc = "done" =>
       /\ max_index \in 0..(CombinationCount - 1)
       /\ \A k \in 1..CombinationCount : ~Less(Metric(max_index + 1), Metric(k))
       /\ \A k \in 1..max_index : ~SameValue(Metric(k), Metric(max_index + 1))
       /\ args.game = "hoppel_poppel" =>
            \A k \in 0..5 :
               PlayerStrategies("combo_trials", k)[1] = <<"RANDOM", "T1">>

\* C24 witness: in a finished race statistics run three combinations share the
\* maximum, the selected one is the first of them and not the first of all.
C24_Witness ==
    /\ hpc = "done" /\ args.game = "hoppel_poppel"
    /\ max_index = 1
    /\ Less(Metric(1), Metric(2))
    /\ SameValue(Metric(2), Metric(4)) /\ SameValue(Metric(2), Metric(6))

\* C26: a non-positive repetition count on the command line is rejected
\* before any trial runs; run_stats is only ever invoked with a repetition
\* count of at least 1, which is the given positive value, or the default
\* 100000 when none is given.
C26_PositiveCount ==
    /\ hpc \notin {"main", "rejected"} =>
         /\ n_rep >= 1
         /\ n_rep = IF args.n_rep_given THEN args.n_rep ELSE DefaultRep
    /\ (hpc # "main" /\ args.n_rep_given /\ args.n_rep <= 0) =>
         /\ hpc = "rejected"
         /\ rep_i = 0 /\ wins = <<>> /\ sum_points = 0
         /\ all_wins = <<>> /\ all_points = <<>>
    /\ hpc = "rejected" => args.n_rep_given /\ args.n_rep <= 0

\* C26 witness: the command line gave -n 0 and main has rejected it.
C26_Witness ==
    /\ hpc = "rejected" /\ args.n_rep_given /\ args.n_rep = 0
    /\ rep_i = 0

\* C30 (as claimed): for every repetition count N >= 1, whenever the crossover
\* table divides player a's result by player b's result, player b's result is
\* not zero.
C30_CrossoverDivides ==
    (hpc \in {"two_crossover", "four_crossover"} /\ n_rep >= 1) =>
       \A player_b \in DOMAIN wins : wins[player_b].num # 0

(***************************************************************************)
(*            Two runs that receive the same random outcomes               *)
(***************************************************************************)

C28_SecondAxisInert ==
    (Len(players) = 2 /\ players[1].strategy_test # players[2].strategy_test) =>
       /\ players[1].strategy_duplicates = players[2].strategy_duplicates
       /\ SamePools(players[1], players[2])
       /\ TurnPlayed =>
            /\ SamePools(twin.staged, last.staged)
            /\ twin.won = last.won
            /\ Won(players[1]) = Won(players[2])

\* C28 witness: a T1 player and a T2 player of the AvoidDuplicates policy have
\* both won with the same turn.
C28_Witness ==
    /\ Len(players) = 2
    /\ players[1].strategy_test = "T1" /\ players[2].strategy_test = "T2"
    /\ players[1].strategy_duplicates = "AVOID_DUPLICATES"
    /\ TurnPlayed /\ last.won /\ twin.won
    /\ Length(players[2].game_board) = 8

(***************************************************************************)
(*                 game_2048.py: termination of a run                      *)
(***************************************************************************)

\* the direction a deterministic strategy plays j turns after the turn that
\* starts with cursor idx
RECURSIVE NthDir(_, _, _)
NthDir(strat, idx, j) ==
    IF j = 0 THEN PhaseGetDir(strat, idx, "LEFT").dir
    ELSE NthDir(strat, PhaseGetDir(strat, idx, "LEFT").cur_dir_idx, j - 1)

\* the first j turns played from the current state on perform no action
IneffectiveRun(j) ==
    \A k \in 0..(j - 1) :
       ~Phases(board, NthDir(strategy, cur_dir_idx, k), size).action_performed

\* the longest run of ineffective turns the claim allows
MaxIneffective(strat) == IF strat = "LDRD" THEN 4 ELSE 3

\* C29: under RotateClockwise, RotateCounterClockwise and
\* LeftDownRightDownPattern every run reaches the terminal state whatever the
\* spawn outcomes are: in a non-terminal state at most 3 consecutive turns (4
\* for LeftDownRightDownPattern) are ineffective, and every run eventually
\* returns.
C29_Terminates ==
    /\ [](pc = "loop" => ~IneffectiveRun(MaxIneffective(strategy) + 1))
    /\ <>(pc = "returned")

\* C29 witness: a LeftDownRightDownPattern game is in a non-terminal state
\* from which three turns in a row perform no action and the fourth performs
\* one.
C29_Witness ==
    /\ strategy = "LDRD" /\ pc = "loop" /\ Played
    /\ IneffectiveRun(3) /\ ~IneffectiveRun(4)


(***************************************************************************)
(*                 game_2048.py: the number added by a turn                *)
(***************************************************************************)

\* the sum of all values of board b
BoardSum(b, n) == SumTo([r \in 0..(n - 1) |-> SumTo(b[r], n - 1)], n - 1)

\* the cells in which boards a and b differ
ChangedCells(a, b, n) == {rc \in Cells(n) : a[rc[1]][rc[2]] # b[rc[1]][rc[2]]}

\* C31: a turn that performed an action finds an empty cell when the number
\* is added, sets exactly one cell that was empty to 2 or 4 and changes no
\* other cell; moving and merging leave the sum of the board unchanged, so an
\* effective turn raises the sum by exactly 2 or 4 and an ineffective turn
\* leaves the board as it was.
C31_SpawnOnEffectiveTurn ==
    Played =>
       /\ BoardSum(plot.move_to_dir_1_after, size) = BoardSum(plot.start, size)
       /\ BoardSum(plot.merge_neighbours_after, size) = BoardSum(plot.start, size)
       /\ BoardSum(plot.move_to_dir_2_after, size) = BoardSum(plot.start, size)
       /\ plot.action_performed =>
            /\ FreeCells(plot.move_to_dir_2_after, size) # {}
            /\ \E rc \in FreeCells(plot.move_to_dir_2_after, size) :
                 /\ ChangedCells(plot.move_to_dir_2_after, board, size) = {rc}
                 /\ board[rc[1]][rc[2]] \in {2, 4}
            /\ BoardSum(board, size) - BoardSum(plot.start, size) \in {2, 4}
       /\ ~plot.action_performed => board = plot.start

\* C31 witness: a turn that started on a full board has merged two tiles and
\* a 4 has been added in the cell the merge freed.
C31_Witness ==
    /\ Played /\ plot.action_performed
    /\ FreeCells(plot.start, size) = {}
    /\ Cardinality(FreeCells(plot.move_to_dir_2_after, size)) = 1
    /\ BoardSum(board, size) = BoardSum(plot.start, size) + 4


(***************************************************************************)
(*                 hoppel_poppel.py: a win remains possible                *)
(***************************************************************************)

\* all tokens of a player: _Color.animals() * 2
TokenCount == 2 * Len(Animals)

\* player p has all its tokens on the track
AllOnTrack(p) == Length(p.game_board) = TokenCount

\* play() of player p with staging draw rnd and die colour WHITE
PlayWhite(p, rnd) == DieAction(MoveAnimalToYellowArea(p, rnd), "WHITE", "NONE")

\* player p after k turns that all roll WHITE, each staging draw being the
\* first token the draw can point at
RECURSIVE AfterWhiteRolls(_, _)
AfterWhiteRolls(p, k) ==
    IF k = 0 THEN p
    ELSE AfterWhiteRolls(
             PlayWhite(p, CHOOSE rnd \in Draws(p.animals) : TRUE), k - 1)

\* from player state p a win is possible: every WHITE roll puts at least one
\* more token on the track, and as many WHITE rolls as tokens are missing on
\* the track end with all tokens on it
WinPossible(p) ==
    /\ ~AllOnTrack(p) =>
         \A rnd \in Draws(p.animals) :
            Length(PlayWhite(p, rnd).game_board) > Length(p.game_board)
    /\ \E k \in 0..(TokenCount - Length(p.game_board)) :
         AllOnTrack(AfterWhiteRolls(p, k))


\* a turn of a player with k tokens on the track that rolls WHITE
WhiteTurn(k) ==
    /\ winner = 0
    /\ Length(players[cur].game_board) = k
    /\ NextPlayer
    /\ last'.die = "WHITE"

\* the loop of _run with fair die rolls: _roll_die draws every colour with
\* random.randint(1, 6), independently of the state, so at every track count
\* that keeps coming back WHITE is rolled again and again
SpecPlayerFair ==
    /\ InitPlayer /\ [][NextPlayer]_vars
    /\ \A k \in 0..(TokenCount - 1) : SF_vars(WhiteTurn(k))

\* C32: under every strategy set a win remains possible from every reachable
\* state of a player (some finite sequence of rolls, here WHITE rolls, puts
\* all 8 tokens on the track), the trial ends as soon as a player has all
\* tokens on the track (that player is returned and no further turn is
\* played), and under fair die rolls the trial eventually returns a winner.
C32_WinRemainsPossible ==
    /\ [](\A i \in PlayerIds : WinPossible(players[i]))
    /\ []((winner # 0) <=> (\E i \in PlayerIds : AllOnTrack(players[i])))
    /\ [][winner = 0]_vars
    /\ <>(winner # 0)

\* C32 witness: an AvoidDuplicates player has won
\* by a WHITE roll that placed the last two tokens at once.
C32_Witness ==
    /\ winner = 1 /\ AllOnTrack(players[1])
    /\ players[1].strategy_duplicates = "AVOID_DUPLICATES"
    /\ last.die = "WHITE"
    /\ Length(last.before.game_board) = TokenCount - 2

=============================================================================
